---- MODULE Spec2Model ----
(***************************************************************************)
(* Model of the Abricot project/task backend: the project graph            *)
(* (projects, membership rows, tasks, assignment rows, comments), the user *)
(* table, and the request handlers that read and write them. A handler is  *)
(* an async function: it runs from one await to the next in one step, and  *)
(* between two of its steps any other request may take steps of its own.   *)
(***************************************************************************)
EXTENDS Integers, FiniteSets, Sequences, TLC

\* ---------------------------------------------------------------- bounds
MaxContributors == 2      \* longest contributors list of a createProject request
MaxAssignees == 2         \* largest assigneeIds list of a task request
MaxCalls == 2             \* handler invocations in flight at the same time
MaxWriters == 1           \* updateTask invocations among them

\* ------------------------------------------------------------ input sets
None == "none"                      \* undefined: a field the body does not have
Null == "null"                      \* null
NoList == {None}                    \* an array field that is undefined

\* !x for a string, undefined or null
Falsy(x) == x \in {None, Null, ""}

Users == {"u1", "u2", "u3"}         \* rows of the user table
Callers == Users \cup {None}        \* req.user, unset when unauthenticated

UserEmail(u) ==
    CASE u = "u1" -> "u1@x.io"
      [] u = "u2" -> "u2@x.io"
      [] u = "u3" -> "u3@x.io"

EmailInputs == {"u1@x.io", "U2@x.io", "u3@x.io", "zz@x.io", "bad"}

\* String.prototype.toLowerCase on the e-mails the requests carry
toLowerCase(s) ==
    CASE s = "U2@x.io" -> "u2@x.io"
      [] OTHER -> s

NameInputs == {None, " ", " Ab ", "Cd"}

\* String.prototype.trim on the names and titles the requests carry
trim(s) ==
    CASE s = " " -> ""
      [] s = " Ab " -> "Ab"
      [] s = "yo " -> "yo"
      [] OTHER -> s

\* String.prototype.length
length(s) ==
    CASE s = "" -> 0
      [] s = " " -> 1
      [] s = "Ab" -> 2
      [] s = "Cd" -> 2
      [] s = " Ab " -> 4
      [] s = "bad" -> 3
      [] s = "hi" -> 2
      [] s = "yo " -> 3
      [] s = "yo" -> 2
      [] s = "A" -> 1
      [] s = "lorem ipsum ..." -> 1001
      [] OTHER -> 7

Roles == {"ADMIN", "CONTRIBUTOR"}
\* the role of an addContributor body: absent, a role, or any other value
RoleInputs == Roles \cup {None, "BOGUS"}

Statuses == {"TODO", "IN_PROGRESS", "DONE", "CANCELLED"}
StatusInputs == {None, "DONE", "BOGUS"}

ContentInputs == {None, " ", "hi", "yo "}

ProjectIds == {1}                   \* the project ids the store hands out
TaskIds == {1}                      \* the task ids the store hands out
CommentIds == {1, 2}                \* the comment ids the store hands out

ContributorInputs == {NoList} \cup {S \in SUBSET EmailInputs : Cardinality(S) <= MaxContributors}
AssigneeInputs == {NoList} \cup {S \in SUBSET Users : Cardinality(S) <= MaxAssignees}

\* ------------------------------------------------------------------ state
VARIABLES
    projects,      \* project id -> [ownerId, name]
    members,       \* set of ProjectMember rows [userId, projectId, role]
    tasks,         \* task id -> [projectId, title, status]
    assignments,   \* set of TaskAssignee rows [taskId, userId]
    comments,      \* comment id -> [taskId, authorId, content]
    nextProject,   \* number of projects created so far
    nextTask,      \* number of tasks created so far
    nextComment,   \* number of comments created so far
    returned,      \* the validator call just made and what it gave back
    calls,         \* the handler invocations, suspended at an await or answered, by slot
    userRows,      \* ids of the rows of the user table
    mw,            \* the run of authenticateToken on the current request
    accounts       \* user id -> the email stored in the row of the user table

db == <<projects, members, tasks, assignments, comments, nextProject, nextTask, nextComment>>
others == <<returned, userRows, mw, accounts>>
vars == <<projects, members, tasks, assignments, comments, nextProject, nextTask,
          nextComment, returned, calls, userRows, mw, accounts>>

\* a handler invocation: its request (user = req.user, pid, tid, cid = the ids
\* of the route; title = the name, title or content of the body, status, list =
\* contributors or assigneeIds, email), its locals (found = the user or the
\* author looked up, todo = the rows found that are still to be processed,
\* reqUser = the email authenticateToken put in req.user), the await it is
\* suspended at (pc) and what it puts in its answer: code, ids = the assignees
\* of the task, res = the <<project id, userRole>> or <<project id, task id>>
\* pairs, listed = for every task of the answer the ids of its comments in the
\* order of the answer
Call(op, pc, user, pid) ==
    [op |-> op, pc |-> pc, user |-> user, pid |-> pid, tid |-> 0, cid |-> 0,
     title |-> None, status |-> None, list |-> NoList, found |-> None, todo |-> {},
     code |-> None, email |-> None, reqUser |-> None, ids |-> {}, res |-> {},
     listed |-> <<>>]

NoCall == Call("none", "free", None, 0)
Slots == 1..MaxCalls
NoCalls == [c \in Slots |-> NoCall]

\* nothing returned by a validator yet
NoReturn == [op |-> "none"]

\* the Authorization header of a request: no header, or a scheme and a token
Tokens == [kind : {"valid", "expired", "tampered"}, userId : Users]
NoToken == [kind |-> None, userId |-> None]
NoHeader == [scheme |-> None, token |-> NoToken]
HeaderInputs ==
    {NoHeader} \cup [scheme : {"Bearer", "Basic"}, token : Tokens]

\* a run of authenticateToken: pc is "idle" before the request, "lookup" at
\* the await of prisma.user.findUnique, "done" once it has returned
NoRun ==
    [pc |-> "idle", header |-> NoHeader, decoded |-> None, reqUser |-> None,
     sent |-> None, nextCalled |-> FALSE]

Init ==
    /\ projects = <<>>
    /\ members = {}
    /\ tasks = <<>>
    /\ assignments = {}
    /\ nextProject = 0
    /\ comments = <<>>
    /\ nextTask = 0
    /\ nextComment = 0
    /\ returned = NoReturn
    /\ calls = NoCalls
    /\ userRows = Users
    /\ mw = NoRun
    /\ accounts = <<>>

\* ------------------------------------------------- permission evaluator
MemberRows(u, p) == {m \in members : m.userId = u /\ m.projectId = p}

isProjectOwner(u, p) == p \in DOMAIN projects /\ projects[p].ownerId = u

isProjectAdmin(u, p) ==
    p \in DOMAIN projects /\ \E m \in MemberRows(u, p) : m.role = "ADMIN"

hasProjectAccess(u, p) ==
    p \in DOMAIN projects /\ (projects[p].ownerId = u \/ MemberRows(u, p) # {})

canModifyProject(u, p) == isProjectOwner(u, p) \/ isProjectAdmin(u, p)

canDeleteProject(u, p) == isProjectOwner(u, p)

canCreateTasks(u, p) == hasProjectAccess(u, p)

canModifyTasks(u, p) == hasProjectAccess(u, p)

getUserProjectRole(u, p) ==
    IF p \notin DOMAIN projects THEN None
    ELSE IF projects[p].ownerId = u THEN "OWNER"
    ELSE IF MemberRows(u, p) # {} THEN (CHOOSE m \in MemberRows(u, p) : TRUE).role
    ELSE None

\* ------------------------------------------------------------ validation
\* The validators as the functions they are: from the data of a body to the
\* list of { field, message } they return. A field of the body is a string,
\* undefined (None) or null (Null); an array field is undefined, null, a
\* string or an array. A validator that calls a method of a null field throws
\* a TypeError instead of returning.
LongText == "lorem ipsum ..."              \* 1001 characters
IsoDate == "2026-01-01T00:00:00.000Z"
Priorities == {"LOW", "MEDIUM", "HIGH", "URGENT"}

isValidEmail(email) == email \notin {"bad", "", " "}

\* isValidPassword: 8 characters or more, a lower-case and an upper-case
\* letter and a digit
isValidPassword(password) == password \in {"Passw0rd", "Passw0rd2"}

\* isValidDate: the string is the toISOString() of the date it parses to
isValidDate(dateString) == dateString = IsoDate

\* errors.push({ field, message })
push(field, message) == <<[field |-> field, message |-> message]>>

Returned(errors) == [threw |-> FALSE, errors |-> errors]
Thrown == [threw |-> TRUE, errors |-> <<>>]

\* an array field of a body: kind is "undefined", "null", "empty" for the
\* empty string, "string" for any other string, or "array" with its items
Undefined == [kind |-> "undefined", items |-> <<>>]

\* if (data.assigneeIds), if (data.contributors): false for undefined, null
\* and the empty string, true for every other string and for every array
given(field) == field.kind \notin {"undefined", "null", "empty"}

RECURSIVE itemsOf(_)
\* the items of an array that holds the elements of S
itemsOf(S) ==
    IF S = {} THEN <<>>
    ELSE LET x == CHOOSE y \in S : TRUE IN <<x>> \o itemsOf(S \ {x})

\* the array field of a body whose list the handlers read as the set `list'
arrayOf(list) ==
    IF list = NoList THEN Undefined ELSE [kind |-> "array", items |-> itemsOf(list)]

RECURSIVE forEachAssignee(_, _)
\* data.assigneeIds.forEach: one error for every item that is not a user id,
\* under the field assigneeIds[index] (index from 0)
forEachAssignee(items, n) ==
    IF n = 0 THEN <<>>
    ELSE forEachAssignee(items, n - 1) \o
         (IF items[n] = "" THEN push(<<"assigneeIds", n - 1>>,
                                     "L'ID de l'utilisateur assigné est invalide")
          ELSE <<>>)

assigneeIdsErrors(assigneeIds) ==
    IF assigneeIds.kind # "array"
    THEN push(<<"assigneeIds">>, "Les assignations doivent être un tableau")
    ELSE forEachAssignee(assigneeIds.items, Len(assigneeIds.items))

RECURSIVE forEachContributor(_, _)
\* data.contributors.forEach: one error for every item that is not an e-mail,
\* under the field contributors[index] (index from 0)
forEachContributor(items, n) ==
    IF n = 0 THEN <<>>
    ELSE forEachContributor(items, n - 1) \o
         (IF ~isValidEmail(items[n])
          THEN push(<<"contributors", n - 1>>, "Format d'email invalide")
          ELSE <<>>)

contributorsErrors(contributors) ==
    IF contributors.kind # "array"
    THEN push(<<"contributors">>, "Les contributeurs doivent être un tableau")
    ELSE forEachContributor(contributors.items, Len(contributors.items))

validateRegisterData(email, password, name) ==
    Returned(
        (IF Falsy(email) THEN push(<<"email">>, "L'email est requis")
         ELSE IF ~isValidEmail(email) THEN push(<<"email">>, "Format d'email invalide")
         ELSE <<>>) \o
        (IF Falsy(password) THEN push(<<"password">>, "Le mot de passe est requis")
         ELSE IF ~isValidPassword(password)
         THEN push(<<"password">>, "Le mot de passe doit contenir au moins 8 caractères, une lettre majuscule, une lettre minuscule et un chiffre")
         ELSE <<>>) \o
        (IF ~Falsy(name) /\ length(trim(name)) < 2
         THEN push(<<"name">>, "Le nom doit contenir au moins 2 caractères")
         ELSE <<>>))

validateUpdatePasswordData(currentPassword, newPassword) ==
    Returned(
        (IF Falsy(currentPassword)
         THEN push(<<"currentPassword">>, "Le mot de passe actuel est requis")
         ELSE <<>>) \o
        (IF Falsy(newPassword)
         THEN push(<<"newPassword">>, "Le nouveau mot de passe est requis")
         ELSE IF ~isValidPassword(newPassword)
         THEN push(<<"newPassword">>, "Le nouveau mot de passe doit contenir au moins 8 caractères, une lettre majuscule, une lettre minuscule et un chiffre")
         ELSE <<>>) \o
        (IF ~Falsy(currentPassword) /\ ~Falsy(newPassword) /\ currentPassword = newPassword
         THEN push(<<"newPassword">>, "Le nouveau mot de passe doit être différent de l'actuel")
         ELSE <<>>))

\* validateUpdateProfileData: .trim() of a null email or name throws
validateUpdateProfileData(name, email) ==
    IF email = Null \/ name = Null THEN Thrown
    ELSE Returned(
        (IF email = None THEN <<>>
         ELSE IF trim(email) = "" THEN push(<<"email">>, "L'email ne peut pas être vide")
         ELSE IF ~isValidEmail(email) THEN push(<<"email">>, "Format d'email invalide")
         ELSE <<>>) \o
        (IF name # None /\ length(trim(name)) < 2
         THEN push(<<"name">>, "Le nom doit contenir au moins 2 caractères")
         ELSE <<>>))

validateCreateProjectData(name, description, contributors) ==
    Returned(
        (IF Falsy(name) THEN push(<<"name">>, "Le nom du projet est requis")
         ELSE IF length(trim(name)) < 2
         THEN push(<<"name">>, "Le nom du projet doit contenir au moins 2 caractères")
         ELSE IF length(trim(name)) > 100
         THEN push(<<"name">>, "Le nom du projet ne peut pas dépasser 100 caractères")
         ELSE <<>>) \o
        (IF ~Falsy(description) /\ length(trim(description)) > 500
         THEN push(<<"description">>, "La description ne peut pas dépasser 500 caractères")
         ELSE <<>>) \o
        (IF ~given(contributors) THEN <<>>
         ELSE contributorsErrors(contributors)))

\* validateUpdateProjectData: name.trim() and description.trim() are called on
\* whatever is not undefined
validateUpdateProjectData(name, description, contributors) ==
    IF name = Null \/ description = Null THEN Thrown
    ELSE Returned(
        (IF name = None THEN <<>>
         ELSE IF trim(name) = ""
         THEN push(<<"name">>, "Le nom du projet ne peut pas être vide")
         ELSE IF length(trim(name)) < 2
         THEN push(<<"name">>, "Le nom du projet doit contenir au moins 2 caractères")
         ELSE IF length(trim(name)) > 100
         THEN push(<<"name">>, "Le nom du projet ne peut pas dépasser 100 caractères")
         ELSE <<>>) \o
        (IF description # None /\ length(trim(description)) > 500
         THEN push(<<"description">>, "La description ne peut pas dépasser 500 caractères")
         ELSE <<>>) \o
        (IF contributors.kind = "undefined" THEN <<>>
         ELSE contributorsErrors(contributors)))

validateCreateTaskData(title, description, priority, dueDate, assigneeIds) ==
    Returned(
        (IF Falsy(title) THEN push(<<"title">>, "Le titre de la tâche est requis")
         ELSE IF length(trim(title)) < 2
         THEN push(<<"title">>, "Le titre de la tâche doit contenir au moins 2 caractères")
         ELSE IF length(trim(title)) > 200
         THEN push(<<"title">>, "Le titre de la tâche ne peut pas dépasser 200 caractères")
         ELSE <<>>) \o
        (IF ~Falsy(description) /\ length(trim(description)) > 1000
         THEN push(<<"description">>, "La description ne peut pas dépasser 1000 caractères")
         ELSE <<>>) \o
        (IF ~Falsy(priority) /\ priority \notin Priorities
         THEN push(<<"priority">>, "La priorité doit être LOW, MEDIUM, HIGH ou URGENT")
         ELSE <<>>) \o
        (IF ~Falsy(dueDate) /\ ~isValidDate(dueDate)
         THEN push(<<"dueDate">>, "Format de date invalide (utilisez le format ISO)")
         ELSE <<>>) \o
        (IF ~given(assigneeIds) THEN <<>>
         ELSE assigneeIdsErrors(assigneeIds)))

\* validateUpdateTaskData: title.trim() and description.trim() are called on
\* whatever is not undefined
validateUpdateTaskData(title, description, status, priority, dueDate, assigneeIds) ==
    IF title = Null \/ description = Null THEN Thrown
    ELSE Returned(
        (IF title = None THEN <<>>
         ELSE IF trim(title) = ""
         THEN push(<<"title">>, "Le titre de la tâche ne peut pas être vide")
         ELSE IF length(trim(title)) < 2
         THEN push(<<"title">>, "Le titre de la tâche doit contenir au moins 2 caractères")
         ELSE IF length(trim(title)) > 200
         THEN push(<<"title">>, "Le titre de la tâche ne peut pas dépasser 200 caractères")
         ELSE <<>>) \o
        (IF description # None /\ length(trim(description)) > 1000
         THEN push(<<"description">>, "La description ne peut pas dépasser 1000 caractères")
         ELSE <<>>) \o
        (IF ~Falsy(status) /\ status \notin Statuses
         THEN push(<<"status">>, "Le statut doit être TODO, IN_PROGRESS, DONE ou CANCELLED")
         ELSE <<>>) \o
        (IF ~Falsy(priority) /\ priority \notin Priorities
         THEN push(<<"priority">>, "La priorité doit être LOW, MEDIUM, HIGH ou URGENT")
         ELSE <<>>) \o
        (IF ~Falsy(dueDate) /\ ~isValidDate(dueDate)
         THEN push(<<"dueDate">>, "Format de date invalide (utilisez le format ISO)")
         ELSE <<>>) \o
        (IF assigneeIds.kind = "undefined" THEN <<>>
         ELSE assigneeIdsErrors(assigneeIds)))

validateCreateCommentData(content) ==
    Returned(
        IF Falsy(content) THEN push(<<"content">>, "Le contenu du commentaire est requis")
        ELSE IF length(trim(content)) < 1
        THEN push(<<"content">>, "Le contenu du commentaire ne peut pas être vide")
        ELSE IF length(trim(content)) > 2000
        THEN push(<<"content">>, "Le contenu du commentaire ne peut pas dépasser 2000 caractères")
        ELSE <<>>)

validateUpdateCommentData(content) ==
    Returned(
        IF Falsy(content) THEN push(<<"content">>, "Le contenu du commentaire est requis")
        ELSE IF length(trim(content)) < 1
        THEN push(<<"content">>, "Le contenu du commentaire ne peut pas être vide")
        ELSE IF length(trim(content)) > 2000
        THEN push(<<"content">>, "Le contenu du commentaire ne peut pas dépasser 2000 caractères")
        ELSE <<>>)

\* what a handler answers after its validator: SERVER_ERROR from the catch
\* block when the validator threw, VALIDATION_ERROR when the list has an entry
validationCode(validationErrors) ==
    IF validationErrors.threw THEN "SERVER_ERROR"
    ELSE IF validationErrors.errors # <<>> THEN "VALIDATION_ERROR"
    ELSE "OK"

\* ---------------------------------------------------- task assignments
\* every proposed id is the owner or has a membership row in this project
validateProjectMembers(projectId, assigneeIds) ==
    /\ projectId \in DOMAIN projects
    /\ \A u \in assigneeIds :
         projects[projectId].ownerId = u \/ MemberRows(u, projectId) # {}

getTaskAssignments(taskId) == {a.userId : a \in {r \in assignments : r.taskId = taskId}}

\* one TaskAssignee row per user of `us'
NewRows(taskId, us) == {[taskId |-> taskId, userId |-> u] : u \in us}

\* updateTaskAssignments inserting the new rows without deleting the old ones
updateTaskAssignments_InsertOnly(taskId, assigneeIds) ==
    assignments \cup NewRows(taskId, assigneeIds \ getTaskAssignments(taskId))

\* the rows after reconciling the task's rows with the declared set: rows of
\* users no longer declared are deleted, rows of newly declared users inserted
updateTaskAssignments(taskId, assigneeIds) ==
    LET cur == getTaskAssignments(taskId)
        kept == {r \in assignments : r.taskId # taskId \/ r.userId \in assigneeIds}
    IN  kept \cup NewRows(taskId, assigneeIds \ cur)

\* rows of a deleted project, removed by onDelete: Cascade
ProjectTasks(p) == {t \in DOMAIN tasks : tasks[t].projectId = p}

\* comments of deleted tasks, removed by onDelete: Cascade
TaskComments(ts) == {c \in DOMAIN comments : comments[c].taskId \in ts}

Restrict(f, S) == [x \in S |-> f[x]]

\* ------------------------------------------------------------ comment lists
\* createdAt of a comment: the store hands out the ids in the order of creation
createdAt(c) == c

RECURSIVE orderBy(_, _)
\* orderBy: { createdAt: dir } on the comments cs
orderBy(cs, dir) ==
    IF cs = {} THEN <<>>
    ELSE LET first == CHOOSE x \in cs : \A y \in cs :
                        IF dir = "asc" THEN createdAt(x) <= createdAt(y)
                        ELSE createdAt(x) >= createdAt(y)
         IN  <<first>> \o orderBy(cs \ {first}, dir)

\* getTaskComments: the comments of a task, oldest first
getTaskComments(taskId) == orderBy(TaskComments({taskId}), "asc")

\* the comments included with each task of ts by a nested orderBy
includeComments(ts, dir) == [t \in ts |-> orderBy(TaskComments({t}), dir)]

\* ------------------------------------------------ handlers await by await
\* A handler suspended at an await shares the store with the other requests:
\* each operator below runs the invocation of slot c from one await to the
\* next, the query of that await included. ok = FALSE is a query that throws:
\* the catch block of the handler answers SERVER_ERROR.

\* a new invocation takes the lowest free slot
FreeSlot(c) == calls[c] = NoCall /\ \A d \in Slots : d < c => calls[d] # NoCall

At(c, op, pc) == calls[c].op = op /\ calls[c].pc = pc

\* invocations of op that have not answered yet
Pending(op) == Cardinality({d \in Slots : calls[d].op = op /\ calls[d].pc # "done"})

\* the invocation of slot c goes on as the record `call'
Continue(c, call) == calls' = [calls EXCEPT ![c] = call]

\* the invocation of slot c answers: sendSuccess, sendError or, from the
\* catch block, sendServerError. What stays of it is the request (who asked
\* what on which project, task, comment, user and list, and the role an
\* addContributor passed to projectMember.create) and the answer: the code
\* and, with a success, the data.
Answer(c, call, code) ==
    calls' = [calls EXCEPT ![c] =
                [Call(call.op, "done", call.user, call.pid) EXCEPT
                   !.tid = call.tid, !.cid = call.cid, !.found = call.found,
                   !.list = call.list, !.code = code,
                   !.status = IF call.op = "addContributor" THEN call.status ELSE None,
                   !.ids = IF code = "OK" THEN call.ids ELSE {},
                   !.res = IF code = "OK" THEN call.res ELSE {},
                   !.listed = IF code = "OK" THEN call.listed ELSE <<>>]]

\* the codes a handler answers before its first await
SyncCodes == {"UNAUTHORIZED", "VALIDATION_ERROR", "SERVER_ERROR"}

\* a handler up to the end of its first await: code is what its checks give, of
\* which the req.user check and the validator run before the await
Arrive(c, call, code, ok) ==
    /\ FreeSlot(c)
    /\ IF code \in SyncCodes THEN Answer(c, call, code)
       ELSE IF ~ok THEN Answer(c, call, "SERVER_ERROR")
       ELSE IF code # "OK" THEN Answer(c, call, code)
       ELSE Continue(c, call)

\* a handler across an await that only reads: code is what the check on the
\* result gives, next the invocation when it goes on
Await(c, ok, code, next) ==
    IF ~ok THEN Answer(c, calls[c], "SERVER_ERROR")
    ELSE IF code # "OK" THEN Answer(c, calls[c], code)
    ELSE Continue(c, next)

\* the answer has left: the invocation is over
CallReturns ==
    /\ \E c \in Slots : calls[c].pc = "done" /\ calls' = [calls EXCEPT ![c] = NoCall]
    /\ UNCHANGED <<db, others>>

\* one request at a time
Quiet == calls = NoCalls

\* the answer of the request that ran alone
Idle == NoCall
last == IF calls[1].pc = "done" THEN calls[1] ELSE Idle

\* ------------------------------------------------------ project handlers
\* users found by prisma.user.findMany({ email: { in: lower-cased list } })
contributorUsers(contributors) ==
    {u \in Users : \E e \in contributors : UserEmail(u) = toLowerCase(e)}

\* the row prisma.projectMember.create inserts. A table holds rows, not
\* values: id tells two rows of one (userId, projectId) pair apart, whatever
\* their roles; it is the first number no row of the pair has
memberRow(userId, projectId, role) ==
    LET used == {m.id : m \in MemberRows(userId, projectId)}
    IN  [id |-> CHOOSE n \in 1..(Cardinality(used) + 1) : n \notin used,
         userId |-> userId, projectId |-> projectId, role |-> role]

\* prisma.projectMember.create without the unique key on (userId, projectId)
memberCreateThrows_NoUniqueKey(userId, projectId, role) ==
    \/ role \notin Roles
    \/ projectId \notin DOMAIN projects

\* prisma.projectMember.create throws for a role outside the enum, for a
\* project that is gone, and for a second row of the key userId_projectId
memberCreateThrows(userId, projectId, role) ==
    \/ role \notin Roles
    \/ projectId \notin DOMAIN projects
    \/ \E m \in members : m.userId = userId /\ m.projectId = projectId

createProjectChecks(user, name, contributors) ==
    IF user = None THEN "UNAUTHORIZED"
    ELSE validationCode(validateCreateProjectData(name, None, arrayOf(contributors)))

\* createProject: the checks and prisma.project.create
CreateProjectCall(c, user, name, contributors, ok) ==
    LET code == createProjectChecks(user, name, contributors)
        id == nextProject + 1
        call == [Call("createProject", "create", user, 0) EXCEPT !.list = contributors]
    IN  /\ FreeSlot(c)
        /\ nextProject + 1 \in ProjectIds
        /\ IF code # "OK"
           THEN Answer(c, call, code) /\ UNCHANGED <<projects, nextProject>>
           ELSE IF ~ok
           THEN Answer(c, call, "SERVER_ERROR") /\ UNCHANGED <<projects, nextProject>>
           ELSE /\ projects' = projects @@ (id :> [ownerId |-> user, name |-> trim(name)])
                /\ nextProject' = id
                /\ Continue(c, [call EXCEPT
                       !.pid = id,
                       !.pc = IF contributors # NoList /\ contributors # {}
                              THEN "findMany" ELSE "findUnique"])
        /\ UNCHANGED <<members, tasks, assignments, comments, nextTask, nextComment>>
        /\ UNCHANGED others

\* createProject: prisma.user.findMany of the lower-cased e-mails
CreateProjectFindMany(c, ok) ==
    LET found == contributorUsers(calls[c].list)
    IN  /\ At(c, "createProject", "findMany")
        /\ Await(c, ok, "OK", [calls[c] EXCEPT
                                 !.todo = found,
                                 !.pc = IF found # {} THEN "member" ELSE "findUnique"])
        /\ UNCHANGED <<db, others>>

\* createProject: one prisma.projectMember.create of the loop; what it throws
\* is caught inside the loop and the loop goes on
CreateProjectMember(c, ok) ==
    /\ At(c, "createProject", "member")
    /\ \E u \in calls[c].todo :
         LET id == calls[c].pid
             left == calls[c].todo \ {u}
         IN  /\ IF ok /\ ~memberCreateThrows(u, id, "CONTRIBUTOR")
                THEN members' = members \cup {memberRow(u, id, "CONTRIBUTOR")}
                ELSE UNCHANGED members
             /\ Continue(c, [calls[c] EXCEPT
                    !.todo = left,
                    !.pc = IF left # {} THEN "member" ELSE "findUnique"])
    /\ UNCHANGED <<projects, tasks, assignments, comments, nextProject, nextTask, nextComment>>
    /\ UNCHANGED others

\* createProject: prisma.project.findUnique and sendSuccess
CreateProjectFindUnique(c, ok) ==
    /\ At(c, "createProject", "findUnique")
    /\ Answer(c, calls[c], IF ok THEN "OK" ELSE "SERVER_ERROR")
    /\ UNCHANGED <<db, others>>

createProjectSteps(c, ok) ==
    \/ CreateProjectFindMany(c, ok)
    \/ CreateProjectMember(c, ok)
    \/ CreateProjectFindUnique(c, ok)

\* the projects the findMany of getProjects selects
visibleProjects(user) ==
    {p \in DOMAIN projects : projects[p].ownerId = user \/ MemberRows(user, p) # {}}

\* userRole read from the membership row first
userRole_RowFirst(user, id) ==
    IF MemberRows(user, id) # {} THEN (CHOOSE m \in MemberRows(user, id) : TRUE).role
    ELSE getUserProjectRole(user, id)

\* the userRole that getProject and getProjects attach to a project
userRole(user, id) == getUserProjectRole(user, id)

\* getProjects: the req.user check and prisma.project.findMany
GetProjectsCall(c, user, ok) ==
    LET call == [Call("getProjects", "role", user, 0) EXCEPT !.todo = visibleProjects(user)]
    IN  /\ Arrive(c, call, IF user = None THEN "UNAUTHORIZED" ELSE "OK", ok)
        /\ UNCHANGED <<db, others>>

\* getProjects: the getUserProjectRole calls of Promise.all, one project at a
\* time, and sendSuccess after the last
GetProjectsRole(c, ok) ==
    LET call == calls[c]
    IN  /\ At(c, "getProjects", "role")
        /\ IF ~ok THEN Answer(c, call, "SERVER_ERROR")
           ELSE IF call.todo = {} THEN Answer(c, call, "OK")
           ELSE \E p \in call.todo :
                  LET next == [call EXCEPT !.todo = @ \ {p},
                                           !.res = @ \cup {<<p, userRole(call.user, p)>>}]
                  IN  IF next.todo = {} THEN Answer(c, next, "OK") ELSE Continue(c, next)
        /\ UNCHANGED <<db, others>>

\* getProject without the hasProjectAccess check
getProjectChecks_NoAccessCheck(user, id) ==
    IF user = None THEN "UNAUTHORIZED"
    ELSE "OK"

\* getProject: the req.user check and hasProjectAccess
getProjectChecks(user, id) ==
    IF user = None THEN "UNAUTHORIZED"
    ELSE IF ~hasProjectAccess(user, id) THEN "FORBIDDEN"
    ELSE "OK"

GetProjectCall(c, user, id, ok) ==
    /\ Arrive(c, Call("getProject", "findProject", user, id), getProjectChecks(user, id), ok)
    /\ UNCHANGED <<db, others>>

\* getProject: prisma.project.findUnique with its includes, the tasks with
\* their comments among them
GetProjectFindProject(c, ok) ==
    LET id == calls[c].pid
    IN  /\ At(c, "getProject", "findProject")
        /\ Await(c, ok, IF id \notin DOMAIN projects THEN "PROJECT_NOT_FOUND" ELSE "OK",
                 [calls[c] EXCEPT !.pc = "role",
                                  !.listed = includeComments(ProjectTasks(id), "desc")])
        /\ UNCHANGED <<db, others>>

\* getProject: getUserProjectRole and sendSuccess
GetProjectRole(c, ok) ==
    LET call == calls[c]
    IN  /\ At(c, "getProject", "role")
        /\ IF ~ok THEN Answer(c, call, "SERVER_ERROR")
           ELSE Answer(c, [call EXCEPT !.res = {<<call.pid, userRole(call.user, call.pid)>>}],
                       "OK")
        /\ UNCHANGED <<db, others>>

getProjectSteps(c, ok) ==
    \/ GetProjectFindProject(c, ok)
    \/ GetProjectRole(c, ok)

\* updateProject asking isProjectAdmin instead of canModifyProject
updateProjectChecks_AdminOnly(user, id, name) ==
    IF user = None THEN "UNAUTHORIZED"
    ELSE IF validationCode(validateUpdateProjectData(name, None, Undefined)) # "OK"
    THEN validationCode(validateUpdateProjectData(name, None, Undefined))
    ELSE IF ~isProjectAdmin(user, id) THEN "FORBIDDEN"
    ELSE "OK"

\* updateProject: the req.user check, validateUpdateProjectData and
\* canModifyProject
updateProjectChecks(user, id, name) ==
    IF user = None THEN "UNAUTHORIZED"
    ELSE IF validationCode(validateUpdateProjectData(name, None, Undefined)) # "OK"
    THEN validationCode(validateUpdateProjectData(name, None, Undefined))
    ELSE IF ~canModifyProject(user, id) THEN "FORBIDDEN"
    ELSE "OK"

UpdateProjectCall(c, user, id, name, ok) ==
    /\ Arrive(c, [Call("updateProject", "update", user, id) EXCEPT !.title = name],
              updateProjectChecks(user, id, name), ok)
    /\ UNCHANGED <<db, others>>

\* updateProject: prisma.project.update with the fields the body has, which
\* throws when the row is gone, and sendSuccess
UpdateProjectUpdate(c, ok) ==
    LET p == calls[c].pid
    IN  /\ At(c, "updateProject", "update")
        /\ IF ok /\ p \in DOMAIN projects
           THEN /\ projects' = [projects EXCEPT
                     ![p].name = IF calls[c].title = None THEN @
                                 ELSE trim(calls[c].title)]
                /\ Answer(c, calls[c], "OK")
           ELSE /\ UNCHANGED projects
                /\ Answer(c, calls[c], "SERVER_ERROR")
        /\ UNCHANGED <<members, tasks, assignments, comments, nextProject, nextTask,
                       nextComment>>
        /\ UNCHANGED others

\* deleteProject asking canModifyProject instead of canDeleteProject
deleteProjectChecks_CanModify(user, id) ==
    IF user = None THEN "UNAUTHORIZED"
    ELSE IF ~canModifyProject(user, id) THEN "FORBIDDEN"
    ELSE "OK"

\* deleteProject asking hasProjectAccess instead of canDeleteProject
deleteProjectChecks_AnyMember(user, id) ==
    IF user = None THEN "UNAUTHORIZED"
    ELSE IF ~hasProjectAccess(user, id) THEN "FORBIDDEN"
    ELSE "OK"

\* deleteProject: the req.user check and canDeleteProject
deleteProjectChecks(user, id) ==
    IF user = None THEN "UNAUTHORIZED"
    ELSE IF ~canDeleteProject(user, id) THEN "FORBIDDEN"
    ELSE "OK"

DeleteProjectCall(c, user, id, ok) ==
    /\ Arrive(c, Call("deleteProject", "delete", user, id), deleteProjectChecks(user, id), ok)
    /\ UNCHANGED <<db, others>>

\* deleteProject: prisma.project.delete, which throws when the row is gone;
\* the rows that hang on the project go with it
DeleteProjectDelete(c, ok) ==
    LET id == calls[c].pid
    IN  /\ At(c, "deleteProject", "delete")
        /\ IF ok /\ id \in DOMAIN projects
           THEN /\ projects' = Restrict(projects, DOMAIN projects \ {id})
                /\ members' = {m \in members : m.projectId # id}
                /\ tasks' = Restrict(tasks, DOMAIN tasks \ ProjectTasks(id))
                /\ assignments' = {a \in assignments : a.taskId \notin ProjectTasks(id)}
                /\ comments' = Restrict(comments,
                                        DOMAIN comments \ TaskComments(ProjectTasks(id)))
                /\ Answer(c, calls[c], "OK")
           ELSE /\ UNCHANGED <<projects, members, tasks, assignments, comments>>
                /\ Answer(c, calls[c], "SERVER_ERROR")
        /\ UNCHANGED <<nextProject, nextTask, nextComment>>
        /\ UNCHANGED others

\* prisma.user.findUnique({ where: { email: email.toLowerCase() } })
findUserByEmail(email) ==
    IF \E u \in Users : UserEmail(u) = toLowerCase(email)
    THEN CHOOSE u \in Users : UserEmail(u) = toLowerCase(email)
    ELSE None

\* addContributor: the req.user check and canModifyProject
addContributorChecks(user, id) ==
    IF user = None THEN "UNAUTHORIZED"
    ELSE IF ~canModifyProject(user, id) THEN "FORBIDDEN"
    ELSE "OK"

\* The email and the role of the body are drawn at the await that first reads
\* them.
AddContributorCall(c, user, id, ok) ==
    /\ Arrive(c, Call("addContributor", "findUser", user, id), addContributorChecks(user, id), ok)
    /\ UNCHANGED <<db, others>>

\* addContributor: prisma.user.findUnique by the lower-cased e-mail;
\* email.toLowerCase() throws when the body has no email
AddContributorFindUser(c, email, ok) ==
    /\ At(c, "addContributor", "findUser")
    /\ IF email \in {None, Null} THEN Answer(c, calls[c], "SERVER_ERROR")
       ELSE Await(c, ok, IF findUserByEmail(email) = None THEN "USER_NOT_FOUND" ELSE "OK",
                  [calls[c] EXCEPT !.found = findUserByEmail(email), !.pc = "findMember"])
    /\ UNCHANGED <<db, others>>

\* addContributor going to the insert without the look-up of an existing row
AddContributorFindMember_NoExistingCheck(c, ok) ==
    /\ At(c, "addContributor", "findMember")
    /\ Await(c, ok, "OK", [calls[c] EXCEPT !.pc = "create"])
    /\ UNCHANGED <<db, others>>

\* addContributor: prisma.projectMember.findUnique of the existing row
AddContributorFindMember(c, ok) ==
    /\ At(c, "addContributor", "findMember")
    /\ Await(c, ok,
             IF MemberRows(calls[c].found, calls[c].pid) # {}
             THEN "USER_ALREADY_MEMBER" ELSE "OK",
             [calls[c] EXCEPT !.pc = "create"])
    /\ UNCHANGED <<db, others>>

\* addContributor: prisma.projectMember.create and sendSuccess; the role of a
\* body that has none is CONTRIBUTOR, any other value is passed on as it is
AddContributorCreate(c, r, ok) ==
    LET u == calls[c].found
        id == calls[c].pid
        role == IF r = None THEN "CONTRIBUTOR" ELSE r
        call == [calls[c] EXCEPT !.status = role]
    IN  /\ At(c, "addContributor", "create")
        /\ IF ok /\ ~memberCreateThrows(u, id, role)
           THEN /\ members' = members \cup {memberRow(u, id, role)}
                /\ Answer(c, call, "OK")
           ELSE /\ UNCHANGED members
                /\ Answer(c, call, "SERVER_ERROR")
        /\ UNCHANGED <<projects, tasks, assignments, comments, nextProject, nextTask,
                       nextComment>>
        /\ UNCHANGED others

\* emails, roles: the email and the role the bodies may have
addContributorSteps(c, emails, roles, ok) ==
    \/ \E e \in emails : AddContributorFindUser(c, e, ok)
    \/ AddContributorFindMember(c, ok)
    \/ \E r \in roles : AddContributorCreate(c, r, ok)

\* removeContributor asking hasProjectAccess instead of canModifyProject
removeContributorChecks_AnyMember(user, id) ==
    IF user = None THEN "UNAUTHORIZED"
    ELSE IF ~hasProjectAccess(user, id) THEN "FORBIDDEN"
    ELSE "OK"

\* removeContributor: the req.user check and canModifyProject
removeContributorChecks(user, id) ==
    IF user = None THEN "UNAUTHORIZED"
    ELSE IF ~canModifyProject(user, id) THEN "FORBIDDEN"
    ELSE "OK"

\* The userId of the route is drawn at the await that first reads it.
RemoveContributorCall(c, user, id, ok) ==
    /\ Arrive(c, Call("removeContributor", "isOwner", user, id),
              removeContributorChecks(user, id), ok)
    /\ UNCHANGED <<db, others>>

\* removeContributor without the refusal of the owner removing themself
ownerCheck_NoOwnerCheck(user, id, userId) == "OK"

\* removeContributor answering an error when the target has no membership row
ownerCheck_RowRequired(user, id, userId) ==
    IF isProjectOwner(user, id) /\ user = userId THEN "CANNOT_REMOVE_OWNER"
    ELSE IF MemberRows(userId, id) = {} THEN "USER_NOT_FOUND"
    ELSE "OK"

\* removeContributor: isOwner && authReq.user.id === userId
ownerCheck(user, id, userId) ==
    IF isProjectOwner(user, id) /\ user = userId THEN "CANNOT_REMOVE_OWNER"
    ELSE "OK"

\* removeContributor: isProjectOwner of the caller
RemoveContributorIsOwner(c, userId, ok) ==
    /\ At(c, "removeContributor", "isOwner")
    /\ IF ~ok THEN Answer(c, [calls[c] EXCEPT !.found = userId], "SERVER_ERROR")
       ELSE IF ownerCheck(calls[c].user, calls[c].pid, userId) # "OK"
       THEN Answer(c, [calls[c] EXCEPT !.found = userId],
                   ownerCheck(calls[c].user, calls[c].pid, userId))
       ELSE Continue(c, [calls[c] EXCEPT !.found = userId, !.pc = "deleteMany"])
    /\ UNCHANGED <<db, others>>

\* the rows left by prisma.projectMember.deleteMany({ userId, projectId })
deleteManyMembers(rows, userId, projectId) ==
    {m \in rows : ~(m.userId = userId /\ m.projectId = projectId)}

\* removeContributor: prisma.projectMember.deleteMany and sendSuccess
RemoveContributorDeleteMany(c, ok) ==
    /\ At(c, "removeContributor", "deleteMany")
    /\ IF ok
       THEN /\ members' = deleteManyMembers(members, calls[c].found, calls[c].pid)
            /\ Answer(c, calls[c], "OK")
       ELSE /\ UNCHANGED members
            /\ Answer(c, calls[c], "SERVER_ERROR")
    /\ UNCHANGED <<projects, tasks, assignments, comments, nextProject, nextTask,
                   nextComment>>
    /\ UNCHANGED others

\* userIds: the userId the routes may have
removeContributorSteps(c, userIds, ok) ==
    \/ \E u \in userIds : RemoveContributorIsOwner(c, u, ok)
    \/ RemoveContributorDeleteMany(c, ok)

\* --------------------------------------------------------- task handlers
\* prisma.task.findFirst({ where: { id: taskId, projectId } })
taskFound(projectId, taskId) ==
    taskId \in DOMAIN tasks /\ tasks[taskId].projectId = projectId

\* prisma.task.create throws on the foreign key when the project is gone
taskCreateThrows(projectId) == projectId \notin DOMAIN projects

\* prisma.task.update throws when the row is gone and for a status outside
\* the enum
taskUpdateThrows(taskId, status) ==
    \/ taskId \notin DOMAIN tasks
    \/ status # None /\ status \notin Statuses

\* the branch of createTask and updateTask that calls validateProjectMembers
membersChecked(assigneeIds) == assigneeIds # NoList /\ assigneeIds # {}

\* createTask without the hasProjectAccess check
createTaskChecks_NoAccessCheck(user, projectId, title, assigneeIds) ==
    IF user = None THEN "UNAUTHORIZED"
    ELSE IF validationCode(validateCreateTaskData(title, None, None, None,
                                                  arrayOf(assigneeIds))) # "OK"
    THEN validationCode(validateCreateTaskData(title, None, None, None, arrayOf(assigneeIds)))
    ELSE "OK"

\* createTask: the req.user check, validateCreateTaskData and hasProjectAccess
createTaskChecks(user, projectId, title, assigneeIds) ==
    IF user = None THEN "UNAUTHORIZED"
    ELSE IF validationCode(validateCreateTaskData(title, None, None, None,
                                                  arrayOf(assigneeIds))) # "OK"
    THEN validationCode(validateCreateTaskData(title, None, None, None, arrayOf(assigneeIds)))
    ELSE IF ~hasProjectAccess(user, projectId) THEN "FORBIDDEN"
    ELSE "OK"

CreateTaskCall(c, user, projectId, title, assigneeIds, ok) ==
    /\ nextTask + Pending("createTask") + 1 \in TaskIds
    /\ Arrive(c, [Call("createTask", "findProject", user, projectId) EXCEPT
                    !.title = title, !.list = assigneeIds],
              createTaskChecks(user, projectId, title, assigneeIds), ok)
    /\ UNCHANGED <<db, others>>

\* createTask: prisma.project.findUnique
CreateTaskFindProject(c, ok) ==
    /\ At(c, "createTask", "findProject")
    /\ Await(c, ok, IF calls[c].pid \notin DOMAIN projects THEN "PROJECT_NOT_FOUND" ELSE "OK",
             [calls[c] EXCEPT !.pc = "canCreate"])
    /\ UNCHANGED <<db, others>>

\* createTask: canCreateTasks
CreateTaskCanCreate(c, ok) ==
    /\ At(c, "createTask", "canCreate")
    /\ Await(c, ok,
             IF ~canCreateTasks(calls[c].user, calls[c].pid) THEN "FORBIDDEN" ELSE "OK",
             [calls[c] EXCEPT
                !.pc = IF membersChecked(calls[c].list) THEN "validate" ELSE "create"])
    /\ UNCHANGED <<db, others>>

\* createTask going to the insert whoever the assignees are
CreateTaskValidate_NoMemberCheck(c, ok) ==
    /\ At(c, "createTask", "validate")
    /\ Await(c, ok, "OK", [calls[c] EXCEPT !.pc = "create"])
    /\ UNCHANGED <<db, others>>

\* createTask: validateProjectMembers
CreateTaskValidate(c, ok) ==
    /\ At(c, "createTask", "validate")
    /\ Await(c, ok,
             IF ~validateProjectMembers(calls[c].pid, calls[c].list)
             THEN "INVALID_ASSIGNEES" ELSE "OK",
             [calls[c] EXCEPT !.pc = "create"])
    /\ UNCHANGED <<db, others>>

\* createTask: prisma.task.create
CreateTaskCreate(c, ok) ==
    LET call == calls[c]
        id == nextTask + 1
    IN  /\ At(c, "createTask", "create")
        /\ id \in TaskIds
        /\ IF ok /\ ~taskCreateThrows(call.pid)
           THEN /\ tasks' = tasks @@ (id :> [projectId |-> call.pid,
                                             title |-> trim(call.title),
                                             status |-> "TODO"])
                /\ nextTask' = id
                /\ Continue(c, [call EXCEPT
                       !.tid = id, !.title = None,
                       !.pc = IF membersChecked(call.list) THEN "assign" ELSE "findTask"])
           ELSE /\ UNCHANGED <<tasks, nextTask>>
                /\ Answer(c, call, "SERVER_ERROR")
        /\ UNCHANGED <<projects, members, assignments, comments, nextProject, nextComment>>
        /\ UNCHANGED others

\* createTask: updateTaskAssignments, which throws when the task is gone
CreateTaskAssign(c, ok) ==
    /\ At(c, "createTask", "assign")
    /\ IF ok /\ calls[c].tid \in DOMAIN tasks
       THEN /\ assignments' = updateTaskAssignments(calls[c].tid, calls[c].list)
            /\ Continue(c, [calls[c] EXCEPT !.pc = "findTask"])
       ELSE /\ UNCHANGED assignments
            /\ Answer(c, calls[c], "SERVER_ERROR")
    /\ UNCHANGED <<projects, members, tasks, comments, nextProject, nextTask, nextComment>>
    /\ UNCHANGED others

\* createTask: prisma.task.findUnique of the task created
CreateTaskFindTask(c, ok) ==
    /\ At(c, "createTask", "findTask")
    /\ Await(c, ok, IF calls[c].tid \notin DOMAIN tasks THEN "TASK_NOT_FOUND" ELSE "OK",
             [calls[c] EXCEPT !.pc = "assignees"])
    /\ UNCHANGED <<db, others>>

\* createTask, getTask and updateTask: getTaskAssignments
ReadAssignees(c, op, ok) ==
    /\ At(c, op, "assignees")
    /\ Await(c, ok, "OK", [calls[c] EXCEPT !.pc = "comments",
                                           !.ids = getTaskAssignments(calls[c].tid)])
    /\ UNCHANGED <<db, others>>

\* createTask, getTask and updateTask: getTaskComments and sendSuccess
ReadComments(c, op, ok) ==
    LET call == calls[c]
    IN  /\ At(c, op, "comments")
        /\ IF ~ok THEN Answer(c, call, "SERVER_ERROR")
           ELSE Answer(c, [call EXCEPT !.listed = (call.tid :> getTaskComments(call.tid))],
                       "OK")
        /\ UNCHANGED <<db, others>>

createTaskSteps(c, ok) ==
    \/ CreateTaskFindProject(c, ok)
    \/ CreateTaskCanCreate(c, ok)
    \/ CreateTaskValidate(c, ok)
    \/ CreateTaskCreate(c, ok)
    \/ CreateTaskAssign(c, ok)
    \/ CreateTaskFindTask(c, ok)
    \/ ReadAssignees(c, "createTask", ok)
    \/ ReadComments(c, "createTask", ok)

\* getTasks: the req.user check and hasProjectAccess
getTasksChecks(user, projectId) ==
    IF user = None THEN "UNAUTHORIZED"
    ELSE IF ~hasProjectAccess(user, projectId) THEN "FORBIDDEN"
    ELSE "OK"

GetTasksCall(c, user, projectId, ok) ==
    /\ Arrive(c, Call("getTasks", "findMany", user, projectId),
              getTasksChecks(user, projectId), ok)
    /\ UNCHANGED <<db, others>>

\* getTasks: prisma.task.findMany of the tasks of the project
GetTasksFindMany(c, ok) ==
    LET call == calls[c]
        found == ProjectTasks(call.pid)
    IN  /\ At(c, "getTasks", "findMany")
        /\ Await(c, ok, "OK", [call EXCEPT !.pc = "all", !.todo = found,
                                           !.res = {<<call.pid, t>> : t \in found}])
        /\ UNCHANGED <<db, others>>

\* getTasks: Promise.all over tasks.map. Every task has a callback of its
\* own, first at getTaskAssignments (the tasks of todo), then at
\* getTaskComments (those read but not listed yet); the callbacks of
\* different tasks go on in any order, and sendSuccess follows the last.
GetTasksAll(c, ok) ==
    LET call == calls[c]
        found == {pair[2] : pair \in call.res}
        read == (found \ call.todo) \ DOMAIN call.listed
    IN  /\ At(c, "getTasks", "all")
        /\ IF ~ok THEN Answer(c, call, "SERVER_ERROR")
           ELSE IF found = {} THEN Answer(c, call, "OK")
           ELSE \/ \E t \in call.todo :
                     Continue(c, [call EXCEPT !.todo = @ \ {t},
                                              !.ids = @ \cup getTaskAssignments(t)])
                \/ \E t \in read :
                     LET next == [call EXCEPT
                                    !.listed = @ @@ (t :> getTaskComments(t))]
                     IN  IF DOMAIN next.listed = found THEN Answer(c, next, "OK")
                         ELSE Continue(c, next)
        /\ UNCHANGED <<db, others>>

getTasksSteps(c, ok) ==
    \/ GetTasksFindMany(c, ok)
    \/ GetTasksAll(c, ok)

\* getTask letting in a user who is still assignee of the task, as decided
\* when the user was a member
getTaskChecks_AssigneeAccess(user, projectId, taskId) ==
    IF user = None THEN "UNAUTHORIZED"
    ELSE IF ~hasProjectAccess(user, projectId) /\ user \notin getTaskAssignments(taskId)
    THEN "FORBIDDEN"
    ELSE "OK"

\* getTask: the req.user check and hasProjectAccess
getTaskChecks(user, projectId, taskId) ==
    IF user = None THEN "UNAUTHORIZED"
    ELSE IF ~hasProjectAccess(user, projectId) THEN "FORBIDDEN"
    ELSE "OK"

GetTaskCall(c, user, projectId, taskId, ok) ==
    /\ Arrive(c, [Call("getTask", "findTask", user, projectId) EXCEPT !.tid = taskId],
              getTaskChecks(user, projectId, taskId), ok)
    /\ UNCHANGED <<db, others>>

\* getTask: prisma.task.findFirst
GetTaskFindTask(c, ok) ==
    /\ At(c, "getTask", "findTask")
    /\ Await(c, ok,
             IF ~taskFound(calls[c].pid, calls[c].tid) THEN "TASK_NOT_FOUND" ELSE "OK",
             [calls[c] EXCEPT !.pc = "assignees"])
    /\ UNCHANGED <<db, others>>

getTaskSteps(c, ok) ==
    \/ GetTaskFindTask(c, ok)
    \/ ReadAssignees(c, "getTask", ok)
    \/ ReadComments(c, "getTask", ok)

\* updateTask: the req.user check, validateUpdateTaskData and hasProjectAccess
updateTaskChecks(user, projectId, title, status) ==
    IF user = None THEN "UNAUTHORIZED"
    ELSE IF validationCode(validateUpdateTaskData(title, None, status, None, None,
                                                  Undefined)) # "OK"
    THEN validationCode(validateUpdateTaskData(title, None, status, None, None, Undefined))
    ELSE IF ~hasProjectAccess(user, projectId) THEN "FORBIDDEN"
    ELSE "OK"

\* assigneeIds, an array of user ids or undefined, adds nothing to the list of
\* the validator; it is drawn at the await before its first use.
UpdateTaskCall(c, user, projectId, taskId, title, status, ok) ==
    /\ Arrive(c, [Call("updateTask", "canModify", user, projectId) EXCEPT
                    !.tid = taskId, !.title = title, !.status = status],
              updateTaskChecks(user, projectId, title, status), ok)
    /\ UNCHANGED <<db, others>>

\* updateTask: canModifyTasks
UpdateTaskCanModify(c, ok) ==
    /\ At(c, "updateTask", "canModify")
    /\ Await(c, ok,
             IF ~canModifyTasks(calls[c].user, calls[c].pid) THEN "FORBIDDEN" ELSE "OK",
             [calls[c] EXCEPT !.pc = "findTask"])
    /\ UNCHANGED <<db, others>>

\* updateTask: prisma.task.findFirst({ id: taskId, projectId })
UpdateTaskFindTask(c, assigneeIds, ok) ==
    LET call == [calls[c] EXCEPT !.list = assigneeIds]
    IN  /\ At(c, "updateTask", "findTask")
        /\ IF ~ok THEN Answer(c, call, "SERVER_ERROR")
           ELSE IF ~taskFound(call.pid, call.tid) THEN Answer(c, call, "TASK_NOT_FOUND")
           ELSE Continue(c, [call EXCEPT
                   !.pc = IF membersChecked(assigneeIds) THEN "validate" ELSE "update"])
        /\ UNCHANGED <<db, others>>

\* updateTask going to the update whoever the assignees are
UpdateTaskValidate_NoMemberCheck(c, ok) ==
    /\ At(c, "updateTask", "validate")
    /\ Await(c, ok, "OK", [calls[c] EXCEPT !.pc = "update"])
    /\ UNCHANGED <<db, others>>

\* updateTask: validateProjectMembers
UpdateTaskValidate(c, ok) ==
    /\ At(c, "updateTask", "validate")
    /\ Await(c, ok,
             IF ~validateProjectMembers(calls[c].pid, calls[c].list)
             THEN "INVALID_ASSIGNEES" ELSE "OK",
             [calls[c] EXCEPT !.pc = "update"])
    /\ UNCHANGED <<db, others>>

\* updateTaskAssignments called only for a non-empty list
assignmentsDeclared_NonEmpty(assigneeIds) == assigneeIds # NoList /\ assigneeIds # {}

\* the branch of updateTask that calls updateTaskAssignments
assignmentsDeclared(assigneeIds) == assigneeIds # NoList

\* what prisma.task.update writes when the whole row is written: a status the
\* request does not have is written as the default
updateData_WholeRow(task, title, status) ==
    [task EXCEPT !.title = IF title = None THEN @ ELSE trim(title),
                 !.status = IF status = None THEN "TODO" ELSE status]

\* updateData: the fields of the row that the body has
updateData(task, title, status) ==
    [task EXCEPT !.title = IF title = None THEN @ ELSE trim(title),
                 !.status = IF status = None THEN @ ELSE status]

\* updateTask: prisma.task.update
UpdateTaskUpdate(c, ok) ==
    LET call == calls[c]
        t == call.tid
    IN  /\ At(c, "updateTask", "update")
        /\ IF ok /\ ~taskUpdateThrows(t, call.status)
           THEN /\ tasks' = [tasks EXCEPT ![t] = updateData(@, call.title, call.status)]
                /\ Continue(c, [call EXCEPT
                       !.pc = IF assignmentsDeclared(call.list)
                              THEN "assign" ELSE "assignees"])
           ELSE /\ UNCHANGED tasks
                /\ Answer(c, call, "SERVER_ERROR")
        /\ UNCHANGED <<projects, members, assignments, comments, nextProject, nextTask,
                       nextComment>>
        /\ UNCHANGED others

\* updateTask: updateTaskAssignments, one transaction: when it throws no
\* assignment row has changed
UpdateTaskAssign(c, ok) ==
    /\ At(c, "updateTask", "assign")
    /\ IF ok /\ calls[c].tid \in DOMAIN tasks
       THEN /\ assignments' = updateTaskAssignments(calls[c].tid, calls[c].list)
            /\ Continue(c, [calls[c] EXCEPT !.pc = "assignees"])
       ELSE /\ UNCHANGED assignments
            /\ Answer(c, calls[c], "SERVER_ERROR")
    /\ UNCHANGED <<projects, members, tasks, comments, nextProject, nextTask, nextComment>>
    /\ UNCHANGED others

\* lists: the assigneeIds the bodies may have
updateTaskSteps(c, lists, ok) ==
    \/ UpdateTaskCanModify(c, ok)
    \/ \E a \in lists : UpdateTaskFindTask(c, a, ok)
    \/ UpdateTaskValidate(c, ok)
    \/ UpdateTaskUpdate(c, ok)
    \/ UpdateTaskAssign(c, ok)
    \/ ReadAssignees(c, "updateTask", ok)
    \/ ReadComments(c, "updateTask", ok)

\* deleteTask: the req.user check and hasProjectAccess
deleteTaskChecks(user, projectId) ==
    IF user = None THEN "UNAUTHORIZED"
    ELSE IF ~hasProjectAccess(user, projectId) THEN "FORBIDDEN"
    ELSE "OK"

DeleteTaskCall(c, user, projectId, taskId, ok) ==
    /\ Arrive(c, [Call("deleteTask", "canModify", user, projectId) EXCEPT !.tid = taskId],
              deleteTaskChecks(user, projectId), ok)
    /\ UNCHANGED <<db, others>>

\* deleteTask: canModifyTasks
DeleteTaskCanModify(c, ok) ==
    /\ At(c, "deleteTask", "canModify")
    /\ Await(c, ok,
             IF ~canModifyTasks(calls[c].user, calls[c].pid) THEN "FORBIDDEN" ELSE "OK",
             [calls[c] EXCEPT !.pc = "findTask"])
    /\ UNCHANGED <<db, others>>

\* deleteTask finding the task by its id alone
DeleteTaskFindTask_AnyProject(c, ok) ==
    /\ At(c, "deleteTask", "findTask")
    /\ Await(c, ok, IF calls[c].tid \notin DOMAIN tasks THEN "TASK_NOT_FOUND" ELSE "OK",
             [calls[c] EXCEPT !.pc = "delete"])
    /\ UNCHANGED <<db, others>>

\* deleteTask: prisma.task.findFirst({ id: taskId, projectId })
DeleteTaskFindTask(c, ok) ==
    /\ At(c, "deleteTask", "findTask")
    /\ Await(c, ok,
             IF ~taskFound(calls[c].pid, calls[c].tid) THEN "TASK_NOT_FOUND" ELSE "OK",
             [calls[c] EXCEPT !.pc = "delete"])
    /\ UNCHANGED <<db, others>>

\* deleteTask: prisma.task.delete, which throws when the row is gone; the
\* rows that hang on the task go with it
DeleteTaskDelete(c, ok) ==
    LET taskId == calls[c].tid
    IN  /\ At(c, "deleteTask", "delete")
        /\ IF ok /\ taskId \in DOMAIN tasks
           THEN /\ tasks' = Restrict(tasks, DOMAIN tasks \ {taskId})
                /\ assignments' = {a \in assignments : a.taskId # taskId}
                /\ comments' = Restrict(comments, DOMAIN comments \ TaskComments({taskId}))
                /\ Answer(c, calls[c], "OK")
           ELSE /\ UNCHANGED <<tasks, assignments, comments>>
                /\ Answer(c, calls[c], "SERVER_ERROR")
        /\ UNCHANGED <<projects, members, nextProject, nextTask, nextComment>>
        /\ UNCHANGED others

deleteTaskSteps(c, ok) ==
    \/ DeleteTaskCanModify(c, ok)
    \/ DeleteTaskFindTask(c, ok)
    \/ DeleteTaskDelete(c, ok)

\* ------------------------------------------------------ comment handlers
\* prisma.comment.findFirst({ id: commentId, taskId, task: { projectId } })
commentFound(projectId, taskId, commentId) ==
    /\ commentId \in DOMAIN comments
    /\ comments[commentId].taskId = taskId
    /\ taskId \in DOMAIN tasks
    /\ tasks[taskId].projectId = projectId

\* createComment: the req.user check, validateCreateCommentData and
\* hasProjectAccess
createCommentChecks(user, projectId, content) ==
    IF user = None THEN "UNAUTHORIZED"
    ELSE IF validationCode(validateCreateCommentData(content)) # "OK"
    THEN validationCode(validateCreateCommentData(content))
    ELSE IF ~hasProjectAccess(user, projectId) THEN "FORBIDDEN"
    ELSE "OK"

CreateCommentCall(c, user, projectId, taskId, content, ok) ==
    /\ nextComment + Pending("createComment") + 1 \in CommentIds
    /\ Arrive(c, [Call("createComment", "findTask", user, projectId) EXCEPT
                    !.tid = taskId, !.title = content],
              createCommentChecks(user, projectId, content), ok)
    /\ UNCHANGED <<db, others>>

\* createComment: prisma.task.findFirst
CreateCommentFindTask(c, ok) ==
    /\ At(c, "createComment", "findTask")
    /\ Await(c, ok,
             IF ~taskFound(calls[c].pid, calls[c].tid) THEN "TASK_NOT_FOUND" ELSE "OK",
             [calls[c] EXCEPT !.pc = "create"])
    /\ UNCHANGED <<db, others>>

\* createComment: prisma.comment.create, which throws on the foreign key when
\* the task is gone, and sendSuccess
CreateCommentCreate(c, ok) ==
    LET call == calls[c]
        id == nextComment + 1
    IN  /\ At(c, "createComment", "create")
        /\ id \in CommentIds
        /\ IF ok /\ call.tid \in DOMAIN tasks
           THEN /\ comments' = comments @@
                     (id :> [taskId |-> call.tid, authorId |-> call.user,
                             content |-> trim(call.title)])
                /\ nextComment' = id
                /\ Answer(c, [call EXCEPT !.cid = id], "OK")
           ELSE /\ UNCHANGED <<comments, nextComment>>
                /\ Answer(c, call, "SERVER_ERROR")
        /\ UNCHANGED <<projects, members, tasks, assignments, nextProject, nextTask>>
        /\ UNCHANGED others

createCommentSteps(c, ok) ==
    \/ CreateCommentFindTask(c, ok)
    \/ CreateCommentCreate(c, ok)

\* getComments: the req.user check and hasProjectAccess
getCommentsChecks(user, projectId) ==
    IF user = None THEN "UNAUTHORIZED"
    ELSE IF ~hasProjectAccess(user, projectId) THEN "FORBIDDEN"
    ELSE "OK"

GetCommentsCall(c, user, projectId, taskId, ok) ==
    /\ Arrive(c, [Call("getComments", "findTask", user, projectId) EXCEPT !.tid = taskId],
              getCommentsChecks(user, projectId), ok)
    /\ UNCHANGED <<db, others>>

\* getComments: prisma.task.findFirst
GetCommentsFindTask(c, ok) ==
    /\ At(c, "getComments", "findTask")
    /\ Await(c, ok,
             IF ~taskFound(calls[c].pid, calls[c].tid) THEN "TASK_NOT_FOUND" ELSE "OK",
             [calls[c] EXCEPT !.pc = "findMany"])
    /\ UNCHANGED <<db, others>>

\* getComments: prisma.comment.findMany, oldest first, and sendSuccess
GetCommentsFindMany(c, ok) ==
    LET call == calls[c]
    IN  /\ At(c, "getComments", "findMany")
        /\ IF ~ok THEN Answer(c, call, "SERVER_ERROR")
           ELSE Answer(c, [call EXCEPT
                             !.listed = (call.tid :> orderBy(TaskComments({call.tid}), "asc"))],
                       "OK")
        /\ UNCHANGED <<db, others>>

getCommentsSteps(c, ok) ==
    \/ GetCommentsFindTask(c, ok)
    \/ GetCommentsFindMany(c, ok)

\* getComment: the req.user check and hasProjectAccess
getCommentChecks(user, projectId) ==
    IF user = None THEN "UNAUTHORIZED"
    ELSE IF ~hasProjectAccess(user, projectId) THEN "FORBIDDEN"
    ELSE "OK"

GetCommentCall(c, user, projectId, taskId, commentId, ok) ==
    /\ Arrive(c, [Call("getComment", "findComment", user, projectId) EXCEPT
                    !.tid = taskId, !.cid = commentId],
              getCommentChecks(user, projectId), ok)
    /\ UNCHANGED <<db, others>>

\* getComment: prisma.comment.findFirst and sendSuccess
GetCommentFindComment(c, ok) ==
    LET call == calls[c]
    IN  /\ At(c, "getComment", "findComment")
        /\ IF ~ok THEN Answer(c, call, "SERVER_ERROR")
           ELSE IF ~commentFound(call.pid, call.tid, call.cid)
           THEN Answer(c, call, "COMMENT_NOT_FOUND")
           ELSE Answer(c, call, "OK")
        /\ UNCHANGED <<db, others>>

\* updateComment: the req.user check, validateUpdateCommentData and
\* hasProjectAccess
updateCommentChecks(user, projectId, content) ==
    IF user = None THEN "UNAUTHORIZED"
    ELSE IF validationCode(validateUpdateCommentData(content)) # "OK"
    THEN validationCode(validateUpdateCommentData(content))
    ELSE IF ~hasProjectAccess(user, projectId) THEN "FORBIDDEN"
    ELSE "OK"

UpdateCommentCall(c, user, projectId, taskId, commentId, content, ok) ==
    /\ Arrive(c, [Call("updateComment", "findComment", user, projectId) EXCEPT
                    !.tid = taskId, !.cid = commentId, !.title = content],
              updateCommentChecks(user, projectId, content), ok)
    /\ UNCHANGED <<db, others>>

\* updateComment without the author check
UpdateCommentFindComment_AnyMember(c, ok) ==
    LET call == calls[c]
    IN  /\ At(c, "updateComment", "findComment")
        /\ Await(c, ok,
                 IF ~commentFound(call.pid, call.tid, call.cid) THEN "COMMENT_NOT_FOUND"
                 ELSE "OK",
                 [call EXCEPT !.pc = "update"])
        /\ UNCHANGED <<db, others>>

\* updateComment: prisma.comment.findFirst and the check that the caller is
\* the author of the comment found
UpdateCommentFindComment(c, ok) ==
    LET call == calls[c]
    IN  /\ At(c, "updateComment", "findComment")
        /\ Await(c, ok,
                 IF ~commentFound(call.pid, call.tid, call.cid) THEN "COMMENT_NOT_FOUND"
                 ELSE IF comments[call.cid].authorId # call.user THEN "FORBIDDEN"
                 ELSE "OK",
                 [call EXCEPT !.pc = "update"])
        /\ UNCHANGED <<db, others>>

\* updateComment: prisma.comment.update, which throws when the row is gone,
\* and sendSuccess
UpdateCommentUpdate(c, ok) ==
    LET call == calls[c]
    IN  /\ At(c, "updateComment", "update")
        /\ IF ok /\ call.cid \in DOMAIN comments
           THEN /\ comments' = [comments EXCEPT ![call.cid].content = trim(call.title)]
                /\ Answer(c, call, "OK")
           ELSE /\ UNCHANGED comments
                /\ Answer(c, call, "SERVER_ERROR")
        /\ UNCHANGED <<projects, members, tasks, assignments, nextProject, nextTask,
                       nextComment>>
        /\ UNCHANGED others

updateCommentSteps(c, ok) ==
    \/ UpdateCommentFindComment(c, ok)
    \/ UpdateCommentUpdate(c, ok)

\* deleteComment: the req.user check and hasProjectAccess
deleteCommentChecks(user, projectId) ==
    IF user = None THEN "UNAUTHORIZED"
    ELSE IF ~hasProjectAccess(user, projectId) THEN "FORBIDDEN"
    ELSE "OK"

\* deleteComment deleting the row before it has checked anything
DeleteCommentCall_DeleteFirst(c, user, projectId, taskId, commentId, ok) ==
    /\ Arrive(c, [Call("deleteComment", "findComment", user, projectId) EXCEPT
                    !.tid = taskId, !.cid = commentId],
              deleteCommentChecks(user, projectId), ok)
    /\ comments' = Restrict(comments, DOMAIN comments \ {commentId})
    /\ UNCHANGED <<projects, members, tasks, assignments, nextProject, nextTask,
                   nextComment>>
    /\ UNCHANGED others

DeleteCommentCall(c, user, projectId, taskId, commentId, ok) ==
    /\ Arrive(c, [Call("deleteComment", "findComment", user, projectId) EXCEPT
                    !.tid = taskId, !.cid = commentId],
              deleteCommentChecks(user, projectId), ok)
    /\ UNCHANGED <<db, others>>

\* deleteComment: prisma.comment.findFirst; found is the author of the comment
DeleteCommentFindComment(c, ok) ==
    LET call == calls[c]
    IN  /\ At(c, "deleteComment", "findComment")
        /\ IF ~ok THEN Answer(c, call, "SERVER_ERROR")
           ELSE IF ~commentFound(call.pid, call.tid, call.cid)
           THEN Answer(c, call, "COMMENT_NOT_FOUND")
           ELSE Continue(c, [call EXCEPT !.pc = "canModify",
                                         !.found = comments[call.cid].authorId])
        /\ UNCHANGED <<db, others>>

\* deleteComment: canModifyTasks and the check that the caller is the author
\* or may modify tasks
DeleteCommentCanModify(c, ok) ==
    LET call == calls[c]
    IN  /\ At(c, "deleteComment", "canModify")
        /\ Await(c, ok,
                 IF call.found # call.user /\ ~canModifyTasks(call.user, call.pid)
                 THEN "FORBIDDEN" ELSE "OK",
                 [call EXCEPT !.pc = "delete"])
        /\ UNCHANGED <<db, others>>

\* deleteComment: prisma.comment.delete, which throws when the row is gone,
\* and sendSuccess
DeleteCommentDelete(c, ok) ==
    LET call == calls[c]
    IN  /\ At(c, "deleteComment", "delete")
        /\ IF ok /\ call.cid \in DOMAIN comments
           THEN /\ comments' = Restrict(comments, DOMAIN comments \ {call.cid})
                /\ Answer(c, call, "OK")
           ELSE /\ UNCHANGED comments
                /\ Answer(c, call, "SERVER_ERROR")
        /\ UNCHANGED <<projects, members, tasks, assignments, nextProject, nextTask,
                       nextComment>>
        /\ UNCHANGED others

deleteCommentSteps(c, ok) ==
    \/ DeleteCommentFindComment(c, ok)
    \/ DeleteCommentCanModify(c, ok)
    \/ DeleteCommentDelete(c, ok)

\* ---------------------------------------------------- dashboard handlers
\* where: { assignees: { some: { userId } } }
assignedTasks(user) ==
    {t \in DOMAIN tasks : \E a \in assignments : a.taskId = t /\ a.userId = user}

\* getAssignedTasks: the req.user check, the one prisma.task.findMany and
\* sendSuccess
getAssignedTasks(c, user, ok) ==
    LET call == Call("getAssignedTasks", "findMany", user, 0)
        found == assignedTasks(user)
    IN  /\ FreeSlot(c)
        /\ IF user = None THEN Answer(c, call, "UNAUTHORIZED")
           ELSE IF ~ok THEN Answer(c, call, "SERVER_ERROR")
           ELSE Answer(c, [call EXCEPT
                             !.res = {<<tasks[t].projectId, t>> : t \in found},
                             !.listed = includeComments(found, "desc")],
                       "OK")
        /\ UNCHANGED <<db, others>>

\* where: { tasks: { some: { assignees: { some: { userId } } } } }
projectsWithTasks(user) ==
    {p \in DOMAIN projects : ProjectTasks(p) \cap assignedTasks(user) # {}}

\* getProjectsWithTasks: the req.user check, the one prisma.project.findMany
\* and sendSuccess
getProjectsWithTasks(c, user, ok) ==
    LET call == Call("getProjectsWithTasks", "findMany", user, 0)
        found == {t \in assignedTasks(user) : tasks[t].projectId \in projectsWithTasks(user)}
    IN  /\ FreeSlot(c)
        /\ IF user = None THEN Answer(c, call, "UNAUTHORIZED")
           ELSE IF ~ok THEN Answer(c, call, "SERVER_ERROR")
           ELSE Answer(c, [call EXCEPT
                             !.res = {<<tasks[t].projectId, t>> : t \in found},
                             !.listed = includeComments(found, "desc")],
                       "OK")
        /\ UNCHANGED <<db, others>>

\* ---------------------------------------------------------- specification
\* one request at a time: a handler is called once the previous answer has
\* left, and no query throws
UpdateTitleInputs == {None, Null, " ", "Cd"}

CreateProjectRequest ==
    /\ Quiet
    /\ \E u \in Callers, n \in NameInputs, l \in ContributorInputs :
          CreateProjectCall(1, u, n, l, TRUE)

GetProjectRequest ==
    /\ Quiet
    /\ \E u \in Callers, p \in ProjectIds : GetProjectCall(1, u, p, TRUE)

GetProjectsRequest ==
    /\ Quiet
    /\ \E u \in Callers : GetProjectsCall(1, u, TRUE)

UpdateProjectRequest ==
    /\ Quiet
    /\ \E u \in Callers, p \in ProjectIds, n \in NameInputs \cup {Null} :
          UpdateProjectCall(1, u, p, n, TRUE)

DeleteProjectRequest ==
    /\ Quiet
    /\ \E u \in Callers, p \in ProjectIds : DeleteProjectCall(1, u, p, TRUE)

AddContributorRequest ==
    /\ Quiet
    /\ \E u \in Callers, p \in ProjectIds : AddContributorCall(1, u, p, TRUE)

RemoveContributorRequest ==
    /\ Quiet
    /\ \E u \in Callers, p \in ProjectIds : RemoveContributorCall(1, u, p, TRUE)

CreateTaskRequest ==
    /\ Quiet
    /\ \E u \in Callers, p \in ProjectIds, n \in NameInputs, a \in AssigneeInputs :
          CreateTaskCall(1, u, p, n, a, TRUE)

UpdateTaskRequest ==
    /\ Quiet
    /\ \E u \in Callers, p \in ProjectIds, t \in TaskIds, n \in UpdateTitleInputs,
          s \in StatusInputs : UpdateTaskCall(1, u, p, t, n, s, TRUE)

DeleteTaskRequest ==
    /\ Quiet
    /\ \E u \in Callers, p \in ProjectIds, t \in TaskIds : DeleteTaskCall(1, u, p, t, TRUE)

\* the handlers called go on, await by await
HandlersRun ==
    \E c \in Slots :
        \/ createProjectSteps(c, TRUE)
        \/ getProjectSteps(c, TRUE)
        \/ GetProjectsRole(c, TRUE)
        \/ UpdateProjectUpdate(c, TRUE)
        \/ DeleteProjectDelete(c, TRUE)
        \/ addContributorSteps(c, EmailInputs \cup {None}, RoleInputs, TRUE)
        \/ removeContributorSteps(c, Users, TRUE)
        \/ createTaskSteps(c, TRUE)
        \/ updateTaskSteps(c, AssigneeInputs, TRUE)
        \/ deleteTaskSteps(c, TRUE)

Next ==
    \/ CreateProjectRequest
    \/ GetProjectRequest
    \/ GetProjectsRequest
    \/ UpdateProjectRequest
    \/ DeleteProjectRequest
    \/ AddContributorRequest
    \/ RemoveContributorRequest
    \/ CreateTaskRequest
    \/ UpdateTaskRequest
    \/ DeleteTaskRequest
    \/ HandlersRun
    \/ CallReturns

Spec == Init /\ [][Next]_vars

\* ------------------------------------------- specification with comments
\* the requests of the project and task routes with one body each, and the
\* comment routes with every content
CmCreateProject ==
    /\ Quiet
    /\ \E u \in Callers, l \in {NoList, {"U2@x.io"}} : CreateProjectCall(1, u, "Cd", l, TRUE)

CmUpdateProject ==
    /\ Quiet
    /\ \E u \in Callers, p \in ProjectIds : UpdateProjectCall(1, u, p, " Ab ", TRUE)

CmDeleteProject ==
    /\ Quiet
    /\ \E u \in Callers, p \in ProjectIds : DeleteProjectCall(1, u, p, TRUE)

CmAddContributor ==
    /\ Quiet
    /\ \E u \in Callers, p \in ProjectIds : AddContributorCall(1, u, p, TRUE)

CmRemoveContributor ==
    /\ Quiet
    /\ \E u \in Callers, p \in ProjectIds : RemoveContributorCall(1, u, p, TRUE)

CmCreateTask ==
    /\ Quiet
    /\ \E u \in Callers, p \in ProjectIds, a \in {NoList, {"u2"}} :
          CreateTaskCall(1, u, p, "Cd", a, TRUE)

CmUpdateTask ==
    /\ Quiet
    /\ \E u \in Callers, p \in ProjectIds, t \in TaskIds :
          UpdateTaskCall(1, u, p, t, None, "DONE", TRUE)

CmDeleteTask ==
    /\ Quiet
    /\ \E u \in Callers, p \in ProjectIds, t \in TaskIds : DeleteTaskCall(1, u, p, t, TRUE)

CreateCommentRequest ==
    /\ Quiet
    /\ \E u \in Callers, p \in ProjectIds, t \in TaskIds, x \in ContentInputs :
          CreateCommentCall(1, u, p, t, x, TRUE)

UpdateCommentRequest ==
    /\ Quiet
    /\ \E u \in Callers, p \in ProjectIds, t \in TaskIds, c \in CommentIds,
          x \in ContentInputs : UpdateCommentCall(1, u, p, t, c, x, TRUE)

DeleteCommentRequest ==
    /\ Quiet
    /\ \E u \in Callers, p \in ProjectIds, t \in TaskIds, c \in CommentIds :
          DeleteCommentCall(1, u, p, t, c, TRUE)

\* the handlers called go on, await by await
CmHandlersRun ==
    \E c \in Slots :
        \/ createProjectSteps(c, TRUE)
        \/ UpdateProjectUpdate(c, TRUE)
        \/ DeleteProjectDelete(c, TRUE)
        \/ addContributorSteps(c, {"U2@x.io", "u3@x.io"}, Roles, TRUE)
        \/ removeContributorSteps(c, Users, TRUE)
        \/ createTaskSteps(c, TRUE)
        \/ updateTaskSteps(c, {NoList, {"u2"}}, TRUE)
        \/ deleteTaskSteps(c, TRUE)
        \/ createCommentSteps(c, TRUE)
        \/ updateCommentSteps(c, TRUE)
        \/ deleteCommentSteps(c, TRUE)

CommentNext ==
    \/ CmCreateProject
    \/ CmUpdateProject
    \/ CmDeleteProject
    \/ CmAddContributor
    \/ CmRemoveContributor
    \/ CmCreateTask
    \/ CmUpdateTask
    \/ CmDeleteTask
    \/ CreateCommentRequest
    \/ UpdateCommentRequest
    \/ DeleteCommentRequest
    \/ CmHandlersRun
    \/ CallReturns

CommentSpec == Init /\ [][CommentNext]_vars

\* ------------------------------------ specification with the read handlers
\* the requests of CommentSpec and, next to them, every handler that reads
\* the project, its tasks, their comments, or the dashboard of the caller
RdGetProject ==
    /\ Quiet
    /\ \E u \in Callers, p \in ProjectIds : GetProjectCall(1, u, p, TRUE)

RdGetTasks ==
    /\ Quiet
    /\ \E u \in Callers, p \in ProjectIds : GetTasksCall(1, u, p, TRUE)

RdGetTask ==
    /\ Quiet
    /\ \E u \in Callers, p \in ProjectIds, t \in TaskIds : GetTaskCall(1, u, p, t, TRUE)

RdGetComments ==
    /\ Quiet
    /\ \E u \in Callers, p \in ProjectIds, t \in TaskIds : GetCommentsCall(1, u, p, t, TRUE)

RdGetAssignedTasks ==
    /\ Quiet
    /\ \E u \in Callers : getAssignedTasks(1, u, TRUE)

RdGetProjectsWithTasks ==
    /\ Quiet
    /\ \E u \in Callers : getProjectsWithTasks(1, u, TRUE)

RdHandlersRun ==
    \E c \in Slots :
        \/ getProjectSteps(c, TRUE)
        \/ getTasksSteps(c, TRUE)
        \/ getTaskSteps(c, TRUE)
        \/ getCommentsSteps(c, TRUE)

ReadNext ==
    \/ CommentNext
    \/ RdGetProject
    \/ RdGetTasks
    \/ RdGetTask
    \/ RdGetComments
    \/ RdGetAssignedTasks
    \/ RdGetProjectsWithTasks
    \/ RdHandlersRun

ReadSpec == Init /\ [][ReadNext]_vars

\* ------------------------------------------------- two projects, one route
\* The task and comment handlers addressed with every combination of route
\* project, task and comment, in a store that holds two projects with a task
\* each.
ScopeProjects == {1, 2}
ScopeTasks == {1, 2}
ScopeUsers == {"u1", "u2", "u3"}
ScopeRows ==
    {[id |-> 1, userId |-> "u3", projectId |-> 1, role |-> "CONTRIBUTOR"],
     [id |-> 1, userId |-> "u1", projectId |-> 2, role |-> "CONTRIBUTOR"]}

\* no request in flight, the user table full
Started ==
    /\ returned = NoReturn
    /\ calls = NoCalls
    /\ userRows = Users
    /\ mw = NoRun
    /\ accounts = <<>>

\* u1 owns project 1 with task 1, u2 owns project 2 with task 2 and has
\* commented it; u3 may be contributor of project 1 and u1 of project 2
ScopeInit ==
    /\ projects = (1 :> [ownerId |-> "u1", name |-> "Ab"]) @@
                  (2 :> [ownerId |-> "u2", name |-> "Cd"])
    /\ members \in SUBSET ScopeRows
    /\ tasks = (1 :> [projectId |-> 1, title |-> "Ab", status |-> "TODO"]) @@
               (2 :> [projectId |-> 2, title |-> "Cd", status |-> "TODO"])
    /\ assignments = {}
    /\ comments = (1 :> [taskId |-> 2, authorId |-> "u2", content |-> "hi"])
    /\ nextProject = 2
    /\ nextTask = 2
    /\ nextComment = 1
    /\ Started

ScGetTask ==
    /\ Quiet
    /\ \E u \in ScopeUsers, p \in ScopeProjects, t \in ScopeTasks : GetTaskCall(1, u, p, t, TRUE)

ScUpdateTask ==
    /\ Quiet
    /\ \E u \in ScopeUsers, p \in ScopeProjects, t \in ScopeTasks, n \in {None, " Ab "},
          s \in {None, "DONE", ""} : UpdateTaskCall(1, u, p, t, n, s, TRUE)

ScDeleteTask ==
    /\ Quiet
    /\ \E u \in ScopeUsers, p \in ScopeProjects, t \in ScopeTasks :
          DeleteTaskCall(1, u, p, t, TRUE)

ScCreateComment ==
    /\ Quiet
    /\ \E u \in ScopeUsers, p \in ScopeProjects, t \in ScopeTasks, x \in {" ", "yo "} :
          CreateCommentCall(1, u, p, t, x, TRUE)

ScUpdateComment ==
    /\ Quiet
    /\ \E u \in ScopeUsers, p \in ScopeProjects, t \in ScopeTasks, c \in CommentIds,
          x \in {" ", "yo "} : UpdateCommentCall(1, u, p, t, c, x, TRUE)

ScDeleteComment ==
    /\ Quiet
    /\ \E u \in ScopeUsers, p \in ScopeProjects, t \in ScopeTasks, c \in CommentIds :
          DeleteCommentCall(1, u, p, t, c, TRUE)

ScHandlersRun ==
    \E c \in Slots :
        \/ getTaskSteps(c, TRUE)
        \/ updateTaskSteps(c, {NoList, {"u3"}}, TRUE)
        \/ deleteTaskSteps(c, TRUE)
        \/ createCommentSteps(c, TRUE)
        \/ updateCommentSteps(c, TRUE)
        \/ deleteCommentSteps(c, TRUE)

ScopeNext ==
    \/ ScGetTask
    \/ ScUpdateTask
    \/ ScDeleteTask
    \/ ScCreateComment
    \/ ScUpdateComment
    \/ ScDeleteComment
    \/ ScHandlersRun
    \/ CallReturns

ScopeSpec == ScopeInit /\ [][ScopeNext]_vars

\* ----------------------------------------------- requests side by side
\* Several requests are in flight: each runs from one await to the next while
\* the others do the same, and a query of any of them may throw.

\* the store after u1 has created the project with u2 and u3 in it and its
\* task, assigned to nobody or to u1 and u2
TaskInit ==
    /\ projects = (1 :> [ownerId |-> "u1", name |-> "Cd"])
    /\ members = {[id |-> 1, userId |-> u, projectId |-> 1, role |-> "CONTRIBUTOR"] :
                     u \in {"u2", "u3"}}
    /\ tasks = (1 :> [projectId |-> 1, title |-> "Cd", status |-> "TODO"])
    /\ assignments \in {{}, NewRows(1, {"u1", "u2"})}
    /\ comments = <<>>
    /\ nextProject = 1
    /\ nextTask = 1
    /\ nextComment = 0
    /\ Started

StepUsers == {"u1", "u2"}
StepStatusInputs == {None, "DONE"}
StepAssigneeInputs == {NoList, {}, {"u3"}, {"u2", "u3"}}

\* updateTask invocations in flight
Writers == Cardinality({d \in Slots : calls[d].op = "updateTask"})

AsUpdateTask ==
    /\ Writers < MaxWriters
    /\ \E c \in Slots, u \in StepUsers, p \in ProjectIds, t \in TaskIds,
          s \in StepStatusInputs, ok \in BOOLEAN : UpdateTaskCall(c, u, p, t, None, s, ok)

AsUpdateTaskRuns ==
    \E c \in Slots, ok \in BOOLEAN : updateTaskSteps(c, StepAssigneeInputs, ok)

AsGetTask ==
    \E c \in Slots, u \in StepUsers, p \in ProjectIds, t \in TaskIds, ok \in BOOLEAN :
        GetTaskCall(c, u, p, t, ok)

AsGetTaskRuns ==
    \E c \in Slots, ok \in BOOLEAN : getTaskSteps(c, ok)

AssignNext ==
    \/ AsUpdateTask
    \/ AsUpdateTaskRuns
    \/ AsGetTask
    \/ AsGetTaskRuns
    \/ CallReturns

\* updateTask requests running next to the readers of the task
AssignSpec == TaskInit /\ [][AssignNext]_vars

MbCreateProject ==
    \E c \in Slots, u \in Callers, n \in {"Cd"}, l \in ContributorInputs, ok \in BOOLEAN :
        CreateProjectCall(c, u, n, l, ok)

MbCreateProjectRuns ==
    \E c \in Slots, ok \in BOOLEAN : createProjectSteps(c, ok)

MbAddContributor ==
    \E c \in Slots, u \in Callers, p \in ProjectIds, ok \in BOOLEAN :
        AddContributorCall(c, u, p, ok)

MbAddContributorRuns ==
    \E c \in Slots, ok \in BOOLEAN :
        addContributorSteps(c, EmailInputs \cup {None}, RoleInputs, ok)

MbGetProject ==
    \E c \in Slots, u \in Callers, p \in ProjectIds, ok \in BOOLEAN :
        GetProjectCall(c, u, p, ok)

MbGetProjectRuns ==
    \E c \in Slots, ok \in BOOLEAN : getProjectSteps(c, ok)

MemberNext ==
    \/ MbCreateProject
    \/ MbCreateProjectRuns
    \/ MbAddContributor
    \/ MbAddContributorRuns
    \/ MbGetProject
    \/ MbGetProjectRuns
    \/ CallReturns

\* concurrent createProject and addContributor requests, and their readers
MemberSpec == Init /\ [][MemberNext]_vars

\* --------------------------------------- concurrent updates of one record
\* two requests at a time update the project or the task: the claim of
\* last-write-wins is about a pair of requests
LwwUsers == {"u1", "u2"}
LwwTitleInputs == {None, " Ab "}
LwwStatusInputs == {None, "DONE", "CANCELLED"}
LwwNameInputs == {None, " Ab ", "Cd"}

LwwUpdateTask ==
    \E c \in Slots, u \in LwwUsers, p \in ProjectIds, t \in TaskIds,
       n \in LwwTitleInputs, s \in LwwStatusInputs, ok \in BOOLEAN :
        UpdateTaskCall(c, u, p, t, n, s, ok)

LwwUpdateTaskRuns ==
    \E c \in Slots, ok \in BOOLEAN : updateTaskSteps(c, {NoList, {"u2"}}, ok)

LwwUpdateProject ==
    \E c \in Slots, u \in LwwUsers, p \in ProjectIds, n \in LwwNameInputs, ok \in BOOLEAN :
        UpdateProjectCall(c, u, p, n, ok)

LwwUpdateProjectRuns ==
    \E c \in Slots, ok \in BOOLEAN : UpdateProjectUpdate(c, ok)

LwwNext ==
    \/ LwwUpdateTask
    \/ LwwUpdateTaskRuns
    \/ LwwUpdateProject
    \/ LwwUpdateProjectRuns
    \/ CallReturns

\* two concurrent requests updating the same task or the same project
LwwSpec == TaskInit /\ [][LwwNext]_vars

\* ----------------------------------------- a project deleted under a request
\* the project-scoped handlers of u1, the owner, and u2 run next to each
\* other; among them deleteProject. No query throws.
NfUsers == {"u1", "u2"}
NfTitleInputs == {" ", "Cd"}
NfAssigneeInputs == {NoList, {"u2"}}

NfCreateProject ==
    \E c \in Slots, l \in {NoList, {"U2@x.io"}} :
        CreateProjectCall(c, "u1", "Cd", l, TRUE)

NfGetProject ==
    \E c \in Slots, u \in NfUsers \cup {None}, p \in ProjectIds :
        GetProjectCall(c, u, p, TRUE)

NfUpdateProject ==
    \E c \in Slots, u \in NfUsers, p \in ProjectIds :
        UpdateProjectCall(c, u, p, "Cd", TRUE)

NfDeleteProject ==
    \E c \in Slots, u \in NfUsers, p \in ProjectIds :
        DeleteProjectCall(c, u, p, TRUE)

NfAddContributor ==
    \E c \in Slots, u \in NfUsers, p \in ProjectIds :
        AddContributorCall(c, u, p, TRUE)

NfRemoveContributor ==
    \E c \in Slots, u \in NfUsers, p \in ProjectIds :
        RemoveContributorCall(c, u, p, TRUE)

NfCreateTask ==
    \E c \in Slots, u \in NfUsers \cup {None}, p \in ProjectIds, n \in NfTitleInputs,
       a \in NfAssigneeInputs : CreateTaskCall(c, u, p, n, a, TRUE)

NfGetTasks ==
    \E c \in Slots, u \in NfUsers, p \in ProjectIds :
        GetTasksCall(c, u, p, TRUE)

NfCreateComment ==
    \E c \in Slots, u \in NfUsers, p \in ProjectIds, t \in TaskIds :
        CreateCommentCall(c, u, p, t, "hi", TRUE)

NfGetComments ==
    \E c \in Slots, u \in NfUsers, p \in ProjectIds, t \in TaskIds :
        GetCommentsCall(c, u, p, t, TRUE)

NfGetComment ==
    \E c \in Slots, u \in NfUsers, p \in ProjectIds, t \in TaskIds, x \in CommentIds : GetCommentCall(c, u, p, t, x, TRUE)

NfUpdateComment ==
    \E c \in Slots, u \in NfUsers, p \in ProjectIds, t \in TaskIds, x \in CommentIds : UpdateCommentCall(c, u, p, t, x, "hi", TRUE)

NfDeleteComment ==
    \E c \in Slots, u \in NfUsers, p \in ProjectIds, t \in TaskIds, x \in CommentIds : DeleteCommentCall(c, u, p, t, x, TRUE)

NfHandlersRun ==
    \E c \in Slots :
        \/ createProjectSteps(c, TRUE)
        \/ getProjectSteps(c, TRUE)
        \/ UpdateProjectUpdate(c, TRUE)
        \/ DeleteProjectDelete(c, TRUE)
        \/ addContributorSteps(c, {"u3@x.io"}, {None}, TRUE)
        \/ removeContributorSteps(c, {"u3"}, TRUE)
        \/ createTaskSteps(c, TRUE)
        \/ getTasksSteps(c, TRUE)
        \/ createCommentSteps(c, TRUE)
        \/ getCommentsSteps(c, TRUE)
        \/ GetCommentFindComment(c, TRUE)
        \/ updateCommentSteps(c, TRUE)
        \/ deleteCommentSteps(c, TRUE)

NotFoundNext ==
    \/ NfCreateProject
    \/ NfGetProject
    \/ NfUpdateProject
    \/ NfDeleteProject
    \/ NfAddContributor
    \/ NfRemoveContributor
    \/ NfCreateTask
    \/ NfGetTasks
    \/ NfCreateComment
    \/ NfGetComments
    \/ NfGetComment
    \/ NfUpdateComment
    \/ NfDeleteComment
    \/ NfHandlersRun
    \/ CallReturns

NotFoundSpec == Init /\ [][NotFoundNext]_vars

\* ------------------------------------ a permission lost under a request
\* the handlers of the project routes, createTask and updateTask of u1 and u2
\* run next to each other. No query throws.
RaCreateProject ==
    \E c \in Slots, l \in {NoList, {"U2@x.io"}} :
        CreateProjectCall(c, "u1", "Cd", l, TRUE)

RaGetProjects ==
    \E c \in Slots, u \in StepUsers : GetProjectsCall(c, u, TRUE)

RaGetProject ==
    \E c \in Slots, u \in StepUsers, p \in ProjectIds :
        GetProjectCall(c, u, p, TRUE)

RaUpdateProject ==
    \E c \in Slots, u \in StepUsers, p \in ProjectIds :
        UpdateProjectCall(c, u, p, " Ab ", TRUE)

RaDeleteProject ==
    \E c \in Slots, u \in StepUsers, p \in ProjectIds :
        DeleteProjectCall(c, u, p, TRUE)

RaAddContributor ==
    \E c \in Slots, u \in StepUsers, p \in ProjectIds :
        AddContributorCall(c, u, p, TRUE)

RaRemoveContributor ==
    \E c \in Slots, u \in StepUsers, p \in ProjectIds :
        RemoveContributorCall(c, u, p, TRUE)

RaCreateTask ==
    \E c \in Slots, u \in StepUsers, p \in ProjectIds, a \in {NoList, {"u2"}} :
        CreateTaskCall(c, u, p, "Cd", a, TRUE)

RaUpdateTask ==
    /\ Writers < MaxWriters
    /\ \E c \in Slots, u \in StepUsers, p \in ProjectIds, t \in TaskIds :
          UpdateTaskCall(c, u, p, t, None, "DONE", TRUE)

RaHandlersRun ==
    \E c \in Slots :
        \/ createProjectSteps(c, TRUE)
        \/ GetProjectsRole(c, TRUE)
        \/ getProjectSteps(c, TRUE)
        \/ UpdateProjectUpdate(c, TRUE)
        \/ DeleteProjectDelete(c, TRUE)
        \/ addContributorSteps(c, {"U2@x.io", "u3@x.io"}, {None, "ADMIN"}, TRUE)
        \/ removeContributorSteps(c, {"u2", "u3"}, TRUE)
        \/ createTaskSteps(c, TRUE)
        \/ updateTaskSteps(c, {NoList, {"u3"}}, TRUE)

RaceNext ==
    \/ RaCreateProject
    \/ RaGetProjects
    \/ RaGetProject
    \/ RaUpdateProject
    \/ RaDeleteProject
    \/ RaAddContributor
    \/ RaRemoveContributor
    \/ RaCreateTask
    \/ RaUpdateTask
    \/ RaHandlersRun
    \/ CallReturns

RaceSpec == Init /\ [][RaceNext]_vars

\* ------------------------------------------------- validators, error lists
\* The validators as the functions they are: from the data of a body to the
\* list of { field, message } they return, or to the TypeError they throw.
RegisterEmailInputs == {None, "", "bad", "U2@x.io"}
PasswordInputs == {None, "", "short", "Passw0rd", "Passw0rd2"}
RegisterNameInputs == {None, "", " ", "A", " Ab "}
TaskTitleInputs == {None, "", " ", "Cd"}
DescriptionInputs == {None, Null, "hi", LongText}
UpdateStatusInputs == {None, "", "DONE", "BOGUS"}
PriorityInputs == {None, "HIGH", "BOGUS"}
DueDateInputs == {None, IsoDate, "tomorrow"}

\* assigneeIds of a body: undefined, null, the empty string, another string,
\* or an array whose items are user ids or empty strings
IdLists == UNION {[1..k -> {"u1", ""}] : k \in 0..MaxAssignees}
AssigneeIdsInputs ==
    {[kind |-> k, items |-> <<>>] : k \in {"undefined", "null", "empty", "string"}}
        \cup {[kind |-> "array", items |-> l] : l \in IdLists}

\* a call of a validator: its name, the data it is given, what it gives back
Validated(op, data, out) == [op |-> op, data |-> data, out |-> out]

ValidateRegister ==
    /\ returned = NoReturn
    /\ \E e \in RegisterEmailInputs, p \in PasswordInputs, n \in RegisterNameInputs :
         returned' = Validated("validateRegisterData",
                               [email |-> e, password |-> p, name |-> n],
                               validateRegisterData(e, p, n))
    /\ UNCHANGED <<db, calls, userRows, mw, accounts>>

ValidateUpdatePassword ==
    /\ returned = NoReturn
    /\ \E c \in PasswordInputs, n \in PasswordInputs :
         returned' = Validated("validateUpdatePasswordData",
                               [currentPassword |-> c, newPassword |-> n],
                               validateUpdatePasswordData(c, n))
    /\ UNCHANGED <<db, calls, userRows, mw, accounts>>

ValidateCreateTask ==
    /\ returned = NoReturn
    /\ \E t \in TaskTitleInputs, d \in DescriptionInputs, p \in PriorityInputs,
          dd \in DueDateInputs, a \in AssigneeIdsInputs :
         returned' = Validated("validateCreateTaskData",
                               [title |-> t, description |-> d, status |-> None,
                                priority |-> p, dueDate |-> dd, assigneeIds |-> a],
                               validateCreateTaskData(t, d, p, dd, a))
    /\ UNCHANGED <<db, calls, userRows, mw, accounts>>

ValidateUpdateTask ==
    /\ returned = NoReturn
    /\ \E t \in UpdateTitleInputs, d \in DescriptionInputs, st \in UpdateStatusInputs,
          p \in PriorityInputs, dd \in DueDateInputs, a \in AssigneeIdsInputs :
         returned' = Validated("validateUpdateTaskData",
                               [title |-> t, description |-> d, status |-> st,
                                priority |-> p, dueDate |-> dd, assigneeIds |-> a],
                               validateUpdateTaskData(t, d, st, p, dd, a))
    /\ UNCHANGED <<db, calls, userRows, mw, accounts>>

\* the caller has read the list
ValidatorReturns ==
    /\ returned # NoReturn
    /\ returned' = NoReturn
    /\ UNCHANGED <<db, calls, userRows, mw, accounts>>

ValidatorNext ==
    \/ ValidateRegister
    \/ ValidateUpdatePassword
    \/ ValidateCreateTask
    \/ ValidateUpdateTask
    \/ ValidatorReturns

ValidatorSpec == Init /\ [][ValidatorNext]_vars

\* ------------------------------------------------- the user table, by await
\* register and updateProfile run await by await next to each other. accounts
\* is the email column of the user table, userRows its ids.
UserIds == <<"u1", "u2", "u3">>     \* the ids prisma.user.create hands out
UserEmailInputs == {None, "bad", "U2@x.io", "u2@x.io", "zz@x.io"}
UserNameInputs == {None, " Ab "}

\* prisma.user.findUnique({ where: { email } }): the row whose email is email
userFindUnique(email) == {u \in DOMAIN accounts : accounts[u] = email}

\* the unique key of the email column: a write of email to the row of user
\* `id' (None for a new row) throws when another row holds that very string
emailKeyThrows(id, email) == \E u \in DOMAIN accounts \ {id} : accounts[u] = email

\* the email column of the data register passes to prisma.user.create, stored
\* as the request typed it
registerData_AsTyped(email) == email

\* the email column of the data register passes to prisma.user.create
registerData(email) == toLowerCase(email)

\* the invocation of slot c answers and keeps its request
UserAnswer(c, call, code) ==
    calls' = [calls EXCEPT ![c] = [call EXCEPT !.pc = "done", !.code = code]]

\* register up to the end of its first await: validateRegisterData, then
\* prisma.user.findUnique by the lower-cased email
RegisterCall(c, email, name, ok) ==
    LET call == [Call("register", "hash", None, 0) EXCEPT !.email = email]
        validationErrors == validateRegisterData(email, "Passw0rd", name)
    IN  /\ FreeSlot(c)
        /\ IF validationErrors.errors # <<>>
           THEN UserAnswer(c, call, "VALIDATION_ERROR")
           ELSE IF ~ok THEN UserAnswer(c, call, "SERVER_ERROR")
           ELSE IF userFindUnique(toLowerCase(email)) # {}
           THEN UserAnswer(c, call, "EMAIL_ALREADY_EXISTS")
           ELSE Continue(c, call)
        /\ UNCHANGED <<db, returned, userRows, mw, accounts>>

\* register across bcrypt.hash
RegisterHash(c, ok) ==
    /\ At(c, "register", "hash")
    /\ IF ok THEN Continue(c, [calls[c] EXCEPT !.pc = "create"])
             ELSE UserAnswer(c, calls[c], "SERVER_ERROR")
    /\ UNCHANGED <<db, returned, userRows, mw, accounts>>

\* register from prisma.user.create on: the row is written unless the query
\* throws, then generateToken and the 201 answer
RegisterCreate(c, ok) ==
    LET call == calls[c]
        free == {i \in 1..Len(UserIds) : UserIds[i] \notin userRows}
        id == UserIds[CHOOSE i \in free : \A j \in free : i <= j]
        email == registerData(call.email)
    IN  /\ At(c, "register", "create")
        /\ free # {}
        /\ IF ~ok \/ emailKeyThrows(None, email)
           THEN /\ UserAnswer(c, call, "SERVER_ERROR")
                /\ UNCHANGED <<userRows, accounts>>
           ELSE /\ userRows' = userRows \cup {id}
                /\ accounts' = (id :> email) @@ accounts
                /\ UserAnswer(c, [call EXCEPT !.user = id], "OK")
        /\ UNCHANGED <<db, returned, mw>>

registerSteps(c, ok) ==
    \/ RegisterHash(c, ok)
    \/ RegisterCreate(c, ok)

\* authenticateToken, the middleware in front of every route but register
\* and login
\* extractTokenFromHeader: the token of a "Bearer <token>" header, else null
extractTokenFromHeader(header) ==
    IF header.scheme = "Bearer" THEN header.token ELSE NoToken

\* verifyToken throws for a token that is expired or whose signature is wrong
verifyTokenThrows(token) == token.kind # "valid"

\* authenticateToken up to its await: a missing token and a throwing
\* verifyToken both end in sendAuthError
authenticateTokenStart(header) ==
    LET token == extractTokenFromHeader(header)
        run == [NoRun EXCEPT !.header = header]
    IN  IF token = NoToken \/ verifyTokenThrows(token)
        THEN [run EXCEPT !.pc = "done", !.sent = "AUTH_ERROR"]
        ELSE [run EXCEPT !.pc = "lookup", !.decoded = token.userId]

\* authenticateToken calling next() whatever the look-up gives, as optionalAuth
authenticateTokenLookup_Optional(run, rows, dbOk) ==
    IF dbOk /\ run.decoded \in rows
    THEN [run EXCEPT !.pc = "done", !.reqUser = run.decoded, !.nextCalled = TRUE]
    ELSE [run EXCEPT !.pc = "done", !.nextCalled = TRUE]

\* authenticateToken from prisma.user.findUnique on: dbOk is FALSE when the
\* query throws, rows are the ids in the user table when it runs
authenticateTokenLookup(run, rows, dbOk) ==
    IF ~dbOk THEN [run EXCEPT !.pc = "done", !.sent = "AUTH_ERROR"]
    ELSE IF run.decoded \notin rows THEN [run EXCEPT !.pc = "done", !.sent = "AUTH_ERROR"]
    ELSE [run EXCEPT !.pc = "done", !.reqUser = run.decoded, !.nextCalled = TRUE]

\* authenticateToken in front of updateProfile, up to the end of its await:
\* a missing token, a throwing verifyToken, a throwing prisma.user.findUnique
\* and a token whose user has no row are answered sendAuthError and
\* updateProfile does not run; else the row, its email included, is in
\* req.user and next() enters updateProfile
UpdateProfileAuth(c, header, email, name, ok) ==
    LET start == authenticateTokenStart(header)
        run == IF start.pc = "done" THEN start
               ELSE authenticateTokenLookup(start, userRows, ok)
        call == [Call("updateProfile", "find", run.reqUser, 0) EXCEPT
                    !.email = email, !.title = name]
    IN  /\ FreeSlot(c)
        /\ IF run.sent = "AUTH_ERROR" THEN UserAnswer(c, call, "AUTH_ERROR")
           ELSE Continue(c, [call EXCEPT !.reqUser = accounts[run.reqUser]])
        /\ UNCHANGED <<db, returned, userRows, mw, accounts>>

\* updateProfile up to prisma.user.update: validateUpdateProfileData, then
\* prisma.user.findUnique by the lower-cased email when the body has an email
\* that is not the one of req.user
UpdateProfileFind(c, ok) ==
    LET call == calls[c]
        validationErrors == validateUpdateProfileData(call.title, call.email)
    IN  /\ At(c, "updateProfile", "find")
        /\ IF validationErrors.threw THEN UserAnswer(c, call, "SERVER_ERROR")
           ELSE IF validationErrors.errors # <<>>
           THEN UserAnswer(c, call, "VALIDATION_ERROR")
           ELSE IF ~Falsy(call.email)
                   /\ toLowerCase(call.email) # toLowerCase(call.reqUser)
           THEN IF ~ok THEN UserAnswer(c, call, "SERVER_ERROR")
                ELSE IF userFindUnique(toLowerCase(call.email)) # {}
                THEN UserAnswer(c, call, "EMAIL_ALREADY_EXISTS")
                ELSE Continue(c, [call EXCEPT !.pc = "update"])
           ELSE Continue(c, [call EXCEPT !.pc = "update"])
        /\ UNCHANGED <<db, returned, userRows, mw, accounts>>

\* updateProfile from prisma.user.update on: the email of the row becomes the
\* lower-cased email of the body, when the body has one
UpdateProfileUpdate(c, ok) ==
    LET call == calls[c]
        email == IF call.email # None THEN toLowerCase(call.email)
                 ELSE accounts[call.user]
    IN  /\ At(c, "updateProfile", "update")
        /\ IF ~ok \/ emailKeyThrows(call.user, email)
           THEN /\ UserAnswer(c, call, "SERVER_ERROR")
                /\ UNCHANGED accounts
           ELSE /\ accounts' = [accounts EXCEPT ![call.user] = email]
                /\ UserAnswer(c, call, "OK")
        /\ UNCHANGED <<db, returned, userRows, mw>>

updateProfileSteps(c, ok) ==
    \/ UpdateProfileFind(c, ok)
    \/ UpdateProfileUpdate(c, ok)

\* the user table is empty when the server starts
UserInit ==
    /\ projects = <<>>
    /\ members = {}
    /\ tasks = <<>>
    /\ assignments = {}
    /\ comments = <<>>
    /\ nextProject = 0
    /\ nextTask = 0
    /\ nextComment = 0
    /\ returned = NoReturn
    /\ calls = NoCalls
    /\ userRows = {}
    /\ mw = NoRun
    /\ accounts = <<>>

UsRegister ==
    \E c \in Slots, email \in UserEmailInputs, name \in UserNameInputs, ok \in BOOLEAN :
        RegisterCall(c, email, name, ok)

UsRegisterRuns ==
    \E c \in Slots, ok \in BOOLEAN : registerSteps(c, ok)

UsUpdateProfile ==
    \E c \in Slots, header \in HeaderInputs, email \in UserEmailInputs \cup {Null},
       name \in UserNameInputs, ok \in BOOLEAN :
        UpdateProfileAuth(c, header, email, name, ok)

UsUpdateProfileRuns ==
    \E c \in Slots, ok \in BOOLEAN : updateProfileSteps(c, ok)

UserNext ==
    \/ UsRegister
    \/ UsRegisterRuns
    \/ UsUpdateProfile
    \/ UsUpdateProfileRuns
    \/ CallReturns

UserSpec == UserInit /\ [][UserNext]_vars

\* ------------------------------------------------- authentication middleware
RequestArrives ==
    /\ mw.pc = "idle"
    /\ \E h \in HeaderInputs : mw' = authenticateTokenStart(h)
    /\ UNCHANGED <<db, returned, calls, userRows, accounts>>

UserLookedUp ==
    /\ mw.pc = "lookup"
    /\ \E dbOk \in BOOLEAN : mw' = authenticateTokenLookup(mw, userRows, dbOk)
    /\ UNCHANGED <<db, returned, calls, userRows, accounts>>

RequestLeaves ==
    /\ mw.pc = "done"
    /\ mw' = NoRun
    /\ UNCHANGED <<db, returned, calls, userRows, accounts>>

\* the users that registered before the server started: any of u1, u2, u3
\* under their own e-mail; a token may name a user whose row is not there
AuthInit ==
    /\ projects = <<>>
    /\ members = {}
    /\ tasks = <<>>
    /\ assignments = {}
    /\ comments = <<>>
    /\ nextProject = 0
    /\ nextTask = 0
    /\ nextComment = 0
    /\ returned = NoReturn
    /\ calls = NoCalls
    /\ userRows \in SUBSET Users
    /\ mw = NoRun
    /\ accounts = [u \in userRows |-> UserEmail(u)]

\* users register while the middleware runs
AuRegister ==
    \E c \in Slots, email \in {"U2@x.io", "zz@x.io"} : RegisterCall(c, email, None, TRUE)

AuRegisterRuns ==
    \E c \in Slots : registerSteps(c, TRUE)

AuthNext ==
    \/ RequestArrives
    \/ UserLookedUp
    \/ RequestLeaves
    \/ AuRegister
    \/ AuRegisterRuns
    \/ CallReturns

AuthSpec == AuthInit /\ [][AuthNext]_vars

\* ------------------------------------------------------------------ claims
\* the relation of a user to a project, read off the graph
OwnerOf(u, p) == p \in DOMAIN projects /\ projects[p].ownerId = u
HasRow(u, p, role) == \E m \in MemberRows(u, p) : m.role = role
HasAnyRow(u, p) == \E r \in Roles : HasRow(u, p, r)
ContributorOnly(u, p) ==
    p \in DOMAIN projects /\ projects[p].ownerId # u /\ HasRow(u, p, "CONTRIBUTOR")
AdminOnly(u, p) ==
    p \in DOMAIN projects /\ projects[p].ownerId # u /\ HasRow(u, p, "ADMIN")
NoRelation(u, p) == p \notin DOMAIN projects \/ (projects[p].ownerId # u /\ ~HasAnyRow(u, p))
Member(u, p) == p \in DOMAIN projects /\ (projects[p].ownerId = u \/ HasAnyRow(u, p))
TaskIn(t, p) == t \in DOMAIN tasks /\ tasks[t].projectId = p
TaskRows(rows, t) == {r \in rows : r.taskId = t}

\* the step is one of the invocation of slot c: its arrival, or the way from
\* one await to the next
Runs(c) == calls'[c] # calls[c] /\ calls'[c] # NoCall
Arrives(c) == calls[c] = NoCall /\ calls'[c] # NoCall
Answers(c) == Runs(c) /\ calls'[c].pc = "done"

\* C1: for the owner of a project every permission predicate is true and
\* getUserProjectRole is OWNER, so no request of the owner on the project is
\* answered FORBIDDEN.
C1_OwnerHasEveryPermission ==
    /\ \A p \in DOMAIN projects :
         LET o == projects[p].ownerId
         IN  /\ hasProjectAccess(o, p)
             /\ canModifyProject(o, p)
             /\ canDeleteProject(o, p)
             /\ canCreateTasks(o, p)
             /\ canModifyTasks(o, p)
             /\ getUserProjectRole(o, p) = "OWNER"
    /\ \A c \in Slots : calls[c].code = "FORBIDDEN" => ~OwnerOf(calls[c].user, calls[c].pid)

C1_Witness ==
    /\ last.op = "updateProject"
    /\ last.code = "OK"
    /\ OwnerOf(last.user, last.pid)
    /\ ~HasAnyRow(last.user, last.pid)

\* C2: a non-owner with a CONTRIBUTOR row cannot modify or delete the project
\* but has access and may create and modify tasks; its updateProject,
\* addContributor, removeContributor and deleteProject are answered at the
\* permission check, FORBIDDEN (an updateProject whose body the validator
\* refuses or throws on: that error), and none of them changes the stored data.
C2_ContributorPredicates ==
    \A u \in Users, p \in ProjectIds :
        ContributorOnly(u, p) =>
            /\ ~canModifyProject(u, p)
            /\ ~canDeleteProject(u, p)
            /\ hasProjectAccess(u, p)
            /\ canCreateTasks(u, p)
            /\ canModifyTasks(u, p)
            /\ addContributorChecks(u, p) = "FORBIDDEN"
            /\ removeContributorChecks(u, p) = "FORBIDDEN"
            /\ deleteProjectChecks(u, p) = "FORBIDDEN"
            /\ \A n \in NameInputs :
                 validationCode(validateUpdateProjectData(n, None, Undefined)) = "OK"
                    => updateProjectChecks(u, p, n) = "FORBIDDEN"

C2_ContributorStep ==
    \A c \in Slots :
        LET r == calls'[c]
        IN  (/\ Arrives(c)
             /\ r.op \in {"updateProject", "addContributor", "removeContributor",
                          "deleteProject"}
             /\ ContributorOnly(r.user, r.pid))
            => /\ UNCHANGED db
               /\ r.pc = "done"
               /\ r.code \in {"FORBIDDEN", "VALIDATION_ERROR", "SERVER_ERROR"}
               /\ r.code # "FORBIDDEN" => r.op = "updateProject"

C2_ContributorIsForbidden ==
    [][C2_ContributorPredicates /\ C2_ContributorPredicates' /\ C2_ContributorStep]_vars

C2_Witness ==
    /\ last.op \in {"updateProject", "addContributor", "removeContributor", "deleteProject"}
    /\ last.code = "FORBIDDEN"
    /\ ContributorOnly(last.user, last.pid)

\* C3: for a user with no relation to a project, and for a project id that
\* does not exist, every boolean predicate is false and getUserProjectRole is
\* null; the handlers answer such a user FORBIDDEN, never a server error.
C3_StrangerHasNoPermission ==
    /\ \A u \in Users, p \in ProjectIds \cup {0} :      \* 0 is never a project id
         NoRelation(u, p) =>
             /\ ~hasProjectAccess(u, p)
             /\ ~isProjectOwner(u, p)
             /\ ~isProjectAdmin(u, p)
             /\ ~canModifyProject(u, p)
             /\ ~canDeleteProject(u, p)
             /\ ~canCreateTasks(u, p)
             /\ ~canModifyTasks(u, p)
             /\ getUserProjectRole(u, p) = None
    /\ (/\ last.op \in {"getProject", "deleteTask"}
        /\ last.user \in Users
        /\ NoRelation(last.user, last.pid))
       => last.code = "FORBIDDEN"
    /\ (calls[1].op \in {"getProject", "deleteTask"} /\ calls[1].user \in Users
        /\ NoRelation(calls[1].user, calls[1].pid))
       => calls[1].pc = "done"

C3_Witness ==
    /\ last.op = "getProject"
    /\ last.code = "FORBIDDEN"
    /\ last.pid \in DOMAIN projects
    /\ last.user \in Users
    /\ NoRelation(last.user, last.pid)

C3_WitnessNoProject ==
    /\ last.op = "getProject"
    /\ last.code = "FORBIDDEN"
    /\ last.pid \notin DOMAIN projects
    /\ nextProject > 0

\* C4: canModifyProject is isProjectOwner or isProjectAdmin and canDeleteProject
\* is isProjectOwner: a non-owner with an ADMIN row may modify but not delete
\* (its deleteProject is answered FORBIDDEN and changes nothing), and an owner
\* without a membership row is not an admin yet may modify.
C4_Predicates ==
    \A u \in Users, p \in ProjectIds :
        /\ canModifyProject(u, p) <=> (OwnerOf(u, p) \/ (p \in DOMAIN projects /\ HasRow(u, p, "ADMIN")))
        /\ canDeleteProject(u, p) <=> OwnerOf(u, p)
        /\ AdminOnly(u, p) => (canModifyProject(u, p) /\ ~canDeleteProject(u, p))
        /\ (OwnerOf(u, p) /\ ~HasAnyRow(u, p)) =>
               (~isProjectAdmin(u, p) /\ canModifyProject(u, p))

C4_AdminStep ==
    \A c \in Slots :
        LET r == calls'[c]
        IN  (Runs(c) /\ AdminOnly(r.user, r.pid))
            => /\ (Arrives(c) /\ r.op = "deleteProject")
                    => (r.pc = "done" /\ r.code = "FORBIDDEN" /\ UNCHANGED db)
               /\ r.op = "deleteProject" => UNCHANGED db
               /\ r.op \in {"updateProject", "addContributor", "removeContributor"}
                    => r.code # "FORBIDDEN"

\* C4: in every state canModifyProject = owner or ADMIN row and canDeleteProject
\* = owner, and every step keeps an ADMIN-only user out of deleteProject while
\* letting it through the canModifyProject checks.
C4_AdminModifiesOwnerDeletes == [][C4_Predicates /\ C4_Predicates' /\ C4_AdminStep]_vars

C4_Witness ==
    /\ last.op = "deleteProject"
    /\ last.code = "FORBIDDEN"
    /\ AdminOnly(last.user, last.pid)
    /\ \E o \in Users : OwnerOf(o, last.pid) /\ ~HasAnyRow(o, last.pid)

\* C5: getUserProjectRole answers OWNER for the owner even when the owner also
\* has a membership row, and the userRole that getProject and getProjects
\* attach for the owner is OWNER.
C5_OwnerRoleFirst ==
    /\ \A p \in DOMAIN projects : getUserProjectRole(projects[p].ownerId, p) = "OWNER"
    /\ (last.op = "getProject" /\ OwnerOf(last.user, last.pid))
          => (last.code = "OK" /\ last.res = {<<last.pid, "OWNER">>})
    /\ (last.op = "getProjects" /\ last.code = "OK")
          => \A p \in DOMAIN projects :
                OwnerOf(last.user, p) => <<p, "OWNER">> \in last.res
    /\ (last.op = "getProjects" /\ last.code = "OK")
          => \A x \in last.res : OwnerOf(last.user, x[1]) => x[2] = "OWNER"

C5_Witness ==
    /\ last.op \in {"getProject", "getProjects"}
    /\ last.code = "OK"
    /\ \E p \in DOMAIN projects :
         /\ OwnerOf(last.user, p)
         /\ HasAnyRow(last.user, p)
         /\ <<p, "OWNER">> \in last.res

\* C6: a removeContributor whose target is the owner of the project is never
\* answered with success, whoever calls it.
C6_RemoveOwnerAlwaysFails ==
    (last.op = "removeContributor" /\ last.found # None /\ OwnerOf(last.found, last.pid))
        => last.code # "OK"

\* C7: no membership row names the owner of its project.
C7_OwnerHasNoRow ==
    \A p \in DOMAIN projects : ~HasAnyRow(projects[p].ownerId, p)

\* C8: every assignee of a task is a member (row or owner) of the task's project.
C8_AssigneesAreMembers ==
    \A a \in assignments :
        a.taskId \in DOMAIN tasks /\ Member(a.userId, tasks[a.taskId].projectId)

\* C9: a createTask or updateTask whose assigneeIds names a user who is not a
\* member of the project of the route writes nothing and is never answered
\* with success; it does not get past validateProjectMembers, which answers
\* INVALID_ASSIGNEES: the answer of every such request that is authenticated,
\* well formed, made by a member and (for updateTask) addressed to a task of
\* the project.
C9_Step ==
    \A c \in Slots :
        LET r == calls'[c]
        IN  (/\ Runs(c)
             /\ r.op \in {"createTask", "updateTask"}
             /\ r.list # NoList
             /\ \E x \in r.list : ~Member(x, r.pid))
            => /\ UNCHANGED db
               /\ r.code # "OK"
               /\ calls[c].pc = "validate" => (r.pc = "done" /\ r.code = "INVALID_ASSIGNEES")
               /\ (/\ r.pc = "done"
                   /\ r.user # None
                   /\ Member(r.user, r.pid)
                   /\ r.code # "VALIDATION_ERROR"
                   /\ r.op = "updateTask" => TaskIn(r.tid, r.pid))
                    => r.code = "INVALID_ASSIGNEES"

C9_InvalidAssigneesRejected == [][C9_Step]_vars

C9_Witness ==
    /\ last.op = "updateTask"
    /\ last.code = "INVALID_ASSIGNEES"
    /\ \E x \in last.list : ~Member(x, last.pid)
    /\ \E x \in last.list : Member(x, last.pid)
    /\ getTaskAssignments(last.tid) # {}

C9_WitnessCreate ==
    /\ last.op = "createTask"
    /\ last.code = "INVALID_ASSIGNEES"
    /\ tasks = <<>>

\* C10: after a successful updateTask that declares the assignee set S the
\* task's assignees are exactly S; the step that reconciles them leaves the
\* rows of users in both the prior set and S, and the rows of other tasks, as
\* they are; no other step of an updateTask touches the assignment rows, and
\* an updateTask without assigneeIds does not reconcile.
C10_After ==
    (last.op = "updateTask" /\ last.code = "OK" /\ last.list # NoList)
        => /\ getTaskAssignments(last.tid) = last.list
           /\ Cardinality(TaskRows(assignments, last.tid)) = Cardinality(last.list)

C10_Step ==
    \A c \in Slots :
        LET r == calls'[c]
            t == r.tid
            S == r.list
        IN  (Runs(c) /\ r.op = "updateTask")
            => IF At(c, "updateTask", "assign") /\ r.pc # "done"
               THEN /\ S # NoList
                    /\ {x.userId : x \in TaskRows(assignments', t)} = S
                    /\ {x \in TaskRows(assignments, t) : x.userId \in S} \subseteq assignments'
                    /\ assignments' \ TaskRows(assignments', t)
                         = assignments \ TaskRows(assignments, t)
               ELSE UNCHANGED assignments

C10_DeclaredSetReplacesPrior == [][C10_After' /\ C10_Step]_vars

C10_Witness ==
    /\ last.op = "updateTask"
    /\ last.code = "OK"
    /\ last.list # NoList
    /\ Cardinality(last.list) = 2
    /\ getTaskAssignments(last.tid) = last.list

C10_WitnessEmpty ==
    /\ last.op = "updateTask"
    /\ last.code = "OK"
    /\ last.list = {}
    /\ assignments = {}

\* an updateTask without assigneeIds answered success and the rows are there
C10_WitnessOmitted ==
    /\ last.op = "updateTask"
    /\ last.code = "OK"
    /\ last.list = NoList
    /\ getTaskAssignments(last.tid) # {}

\* C11: the assignee set of a task changes only in the step in which an
\* updateTask commits updateTaskAssignments, and then to exactly the declared
\* set; an updateTaskAssignments that fails leaves every assignment row as it
\* was; a getTask answers the set that getTaskAssignments read in one step. So
\* no state, and no reader, has a set between the prior and the declared one.
C11_Assignees(rows, t) == {r.userId : r \in TaskRows(rows, t)}

C11_Step ==
    /\ \A t \in TaskIds :
         C11_Assignees(assignments', t) # C11_Assignees(assignments, t)
         => \E c \in Slots :
                 /\ At(c, "updateTask", "assign")
                 /\ calls[c].tid = t
                 /\ calls'[c].pc = "assignees"
                 /\ C11_Assignees(assignments', t) = calls[c].list
    /\ \A c \in Slots :
         (At(c, "updateTask", "assign") /\ Runs(c))
         => IF calls'[c].pc = "assignees"
            THEN C11_Assignees(assignments', calls[c].tid) = calls[c].list
            ELSE /\ calls'[c].pc = "done"
                 /\ calls'[c].code = "SERVER_ERROR"
                 /\ UNCHANGED assignments
    /\ \A c \in Slots :
         /\ (At(c, "getTask", "assignees") /\ Runs(c) /\ calls'[c].pc = "comments")
              => calls'[c].ids = C11_Assignees(assignments, calls[c].tid)
         /\ (At(c, "getTask", "comments") /\ Runs(c) /\ calls'[c].code = "OK")
              => calls'[c].ids = calls[c].ids

C11_ReconciliationIsAllOrNothing == [][C11_Step]_vars

\* a reader saw {u1, u2} while the updateTask declaring {u2, u3} was running,
\* and the task now has exactly {u2, u3}
C11_Witness ==
    \E c \in Slots, d \in Slots :
        /\ At(d, "getTask", "done")
        /\ calls[d].code = "OK"
        /\ calls[d].ids = {"u1", "u2"}
        /\ calls[c].op = "updateTask"
        /\ calls[c].pc \in {"assignees", "comments"}
        /\ calls[c].list = {"u2", "u3"}
        /\ getTaskAssignments(calls[c].tid) = {"u2", "u3"}

\* an updateTaskAssignments threw and the rows are those of before
C11_WitnessFailure ==
    \E c \in Slots :
        /\ At(c, "updateTask", "done")
        /\ calls[c].code = "SERVER_ERROR"
        /\ calls[c].list = {"u2", "u3"}
        /\ tasks[calls[c].tid].status = "DONE"
        /\ getTaskAssignments(calls[c].tid) = {"u1", "u2"}

\* C12: whenever the project of a createProject that is still running, or that
\* has just answered, can be read, every user the request names as contributor
\* has access to it: no reader sees the project with contributor rows missing.
C12_CreateProjectIsAtomic ==
    \A c \in Slots :
        (/\ calls[c].op = "createProject"
         /\ calls[c].pid \in DOMAIN projects
         /\ calls[c].list # NoList)
        => \A u \in contributorUsers(calls[c].list) : hasProjectAccess(u, calls[c].pid)

\* C13: a request answered UNAUTHORIZED or FORBIDDEN has written nothing, and
\* a mutating handler writes only for an authenticated caller who passes, in
\* the state the request finds, every permission check of that handler.
C13_Permitted(r) ==
    LET u == r.user
        p == r.pid
    IN  CASE r.op = "createProject" -> TRUE
          [] r.op \in {"updateProject", "addContributor", "removeContributor"} ->
               canModifyProject(u, p)
          [] r.op = "deleteProject" -> canDeleteProject(u, p)
          [] r.op = "createTask" -> hasProjectAccess(u, p) /\ canCreateTasks(u, p)
          [] r.op \in {"updateTask", "deleteTask"} ->
               hasProjectAccess(u, p) /\ canModifyTasks(u, p)
          [] r.op = "createComment" -> hasProjectAccess(u, p)
          [] r.op = "updateComment" ->
               /\ hasProjectAccess(u, p)
               /\ r.cid \in DOMAIN comments
               /\ comments[r.cid].authorId = u
          [] r.op = "deleteComment" ->
               /\ hasProjectAccess(u, p)
               /\ r.cid \in DOMAIN comments
               /\ (comments[r.cid].authorId = u \/ canModifyTasks(u, p))
          [] OTHER -> FALSE

\* the invocation r has passed a write of its handler
C13_Wrote(r) ==
    \/ r.op = "createProject" /\ r.pc \in {"findMany", "member", "findUnique"}
    \/ r.op = "createTask" /\ r.pc \in {"assign", "findTask", "assignees", "comments"}
    \/ r.op = "updateTask" /\ r.pc \in {"assign", "assignees", "comments"}

C13_Step ==
    /\ \A c \in Slots :
         (Answers(c) /\ calls'[c].code \in {"UNAUTHORIZED", "FORBIDDEN"})
         => (UNCHANGED db /\ ~C13_Wrote(calls[c]))
    /\ db' # db
         => \E c \in Slots :
              LET r == calls'[c]
              IN  /\ Runs(c)
                  /\ r.user # None
                  /\ r.op = "createProject" \/ C13_Permitted([r EXCEPT !.cid = calls[c].cid])
                  /\ IF r.pc = "done" THEN r.code = "OK" ELSE C13_Wrote(r)

\* C13: every step of a handler that is answered 401 or 403 leaves the stored
\* data unchanged, and so did every earlier step of that invocation; every
\* step that changes the data belongs to a request that passed authentication
\* and all its permission checks.
C13_ChecksBeforeWrites == [][C13_Step]_vars

C13_Witness ==
    /\ last.op = "deleteComment"
    /\ last.code = "FORBIDDEN"
    /\ last.cid \in DOMAIN comments
    /\ comments[last.cid].authorId # last.user

\* C14: authenticateToken calls next() only with req.user set to a user whose
\* row is in the user table and whose valid Bearer token names it, and never
\* together with an error answer; a missing token, a token that fails
\* verification and a token naming a user without a row get the authentication
\* error, no next() and no req.user.
C14_Authentic(run) ==
    /\ run.header.scheme = "Bearer"
    /\ run.header.token.kind = "valid"
    /\ run.header.token.userId \in userRows

C14_FailsClosed ==
    /\ mw.pc # "done" => (mw.sent = None /\ ~mw.nextCalled /\ mw.reqUser = None)
    /\ mw.pc = "done" =>
         /\ mw.nextCalled <=> mw.sent = None
         /\ mw.sent # None => (mw.sent = "AUTH_ERROR" /\ mw.reqUser = None)
         /\ mw.nextCalled =>
              /\ C14_Authentic(mw)
              /\ mw.reqUser = mw.header.token.userId
              /\ mw.reqUser \in userRows
         /\ ~C14_Authentic(mw) =>
              (mw.sent = "AUTH_ERROR" /\ ~mw.nextCalled /\ mw.reqUser = None)

C14_Witness ==
    /\ mw.pc = "done"
    /\ mw.header.scheme = "Bearer"
    /\ mw.header.token.kind = "valid"
    /\ mw.header.token.userId \notin userRows
    /\ mw.sent = "AUTH_ERROR"
    /\ userRows # {}

C14_WitnessNext ==
    /\ mw.pc = "done"
    /\ mw.nextCalled
    /\ mw.reqUser \in userRows

\* C15: a removeContributor by an owner or ADMIN whose target has no membership
\* row and is not the owner passes both checks, succeeds and changes nothing;
\* after any successful removeContributor the target has no row, so removing
\* it again leaves the membership rows as they are.
C15_Step ==
    \A c \in Slots :
        LET r == calls'[c]
            u == r.user
            p == r.pid
            t == r.found
        IN  (Runs(c) /\ r.op = "removeContributor")
            => /\ (Arrives(c) /\ u # None /\ canModifyProject(u, p)) => r.pc = "isOwner"
               /\ (/\ At(c, "removeContributor", "isOwner")
                   /\ ~HasAnyRow(t, p)
                   /\ ~OwnerOf(t, p))
                    => (r.pc = "deleteMany" /\ UNCHANGED db)
               /\ At(c, "removeContributor", "deleteMany")
                    => /\ r.pc = "done"
                       /\ r.code = "OK"
                       /\ \A m \in members' : ~(m.userId = t /\ m.projectId = p)
                       /\ deleteManyMembers(members', t, p) = members'
                       /\ UNCHANGED <<projects, tasks, assignments, comments>>
                       /\ ~HasAnyRow(t, p) => UNCHANGED db

C15_RemoveAbsentIsNoOp == [][C15_Step]_vars

C15_Witness ==
    /\ last.op = "removeContributor"
    /\ last.code = "OK"
    /\ AdminOnly(last.user, last.pid)
    /\ last.found # last.user
    /\ ~OwnerOf(last.found, last.pid)
    /\ Cardinality(members) = 1

\* C16: an addContributor for a user who already has a membership row in the
\* project never answers success, never reaches the insert and leaves every
\* row as it was, whatever role it asks for; its look-up of the existing row
\* answers USER_ALREADY_MEMBER.
C16_Step ==
    \A c \in Slots :
        LET r == calls'[c]
        IN  (/\ Runs(c)
             /\ r.op = "addContributor"
             /\ r.found # None
             /\ HasAnyRow(r.found, r.pid))
            => /\ UNCHANGED db
               /\ r.code # "OK"
               /\ r.pc # "create"
               /\ At(c, "addContributor", "findMember")
                    => (r.pc = "done" /\ r.code = "USER_ALREADY_MEMBER")

C16_ExistingMemberIsConflict == [][C16_Step]_vars

C16_Witness ==
    /\ last.op = "addContributor"
    /\ last.code = "USER_ALREADY_MEMBER"
    /\ HasRow(last.found, last.pid, "CONTRIBUTOR")
    /\ ~HasRow(last.found, last.pid, "ADMIN")

\* the rows of the membership table: no two of one pair, every role in the enum
C17_Rows ==
    /\ \A m1 \in members, m2 \in members :
         (m1.userId = m2.userId /\ m1.projectId = m2.projectId) => m1 = m2
    /\ \A m \in members : m.role \in Roles

\* what the inserts do: an addContributor that reaches projectMember.create
\* for a pair that has a row by then, or with a role outside the enum, is
\* answered SERVER_ERROR and inserts nothing; a step of the createProject loop
\* inserts at most one row, a CONTRIBUTOR row of a user who had none
C17_Step ==
    \A c \in Slots :
        /\ (At(c, "addContributor", "create") /\ Runs(c))
            => /\ (MemberRows(calls[c].found, calls[c].pid) # {}
                    \/ calls'[c].status \notin Roles)
                   => (calls'[c].code = "SERVER_ERROR" /\ members' = members)
               /\ calls'[c].code = "OK"
                   => (/\ members' # members
                       /\ \A m \in members' \ members :
                            /\ m.userId = calls[c].found
                            /\ m.projectId = calls[c].pid
                            /\ m.role = calls'[c].status)
        /\ (At(c, "createProject", "member") /\ Runs(c))
            => \A m \in members' \ members :
                 /\ m.role = "CONTRIBUTOR"
                 /\ m.projectId = calls[c].pid
                 /\ m.userId \in calls[c].todo
                 /\ MemberRows(m.userId, m.projectId) = {}

\* C17: under every interleaving of createProject and addContributor requests
\* a (userId, projectId) pair has at most one membership row, before and after
\* every step, and the role of every row is ADMIN or CONTRIBUTOR: an insert
\* for a pair that has a row, or with another role, is refused and changes
\* nothing.
C17_UniqueMembership == [][C17_Rows /\ C17_Rows' /\ C17_Step]_vars

\* two addContributor requests for the same user passed the look-up of an
\* existing row together: one has inserted the row and answered, the other
\* stands at its projectMember.create for the pair that now has a row
C17_Witness ==
    \E c \in Slots, d \in Slots :
        /\ At(c, "addContributor", "done")
        /\ calls[c].code = "OK"
        /\ At(d, "addContributor", "create")
        /\ calls[d].found = calls[c].found
        /\ calls[d].pid = calls[c].pid
        /\ Cardinality(MemberRows(calls[d].found, calls[d].pid)) = 1

\* the loop of a createProject is about to insert a user whose row an
\* addContributor on the new project has inserted in the meantime
C17_WitnessCreateProject ==
    \E c \in Slots :
        /\ At(c, "createProject", "member")
        /\ \E u \in calls[c].todo : HasRow(u, calls[c].pid, "ADMIN")

\* an addContributor passed a role outside the enum to projectMember.create
\* for a user without a row, was answered SERVER_ERROR and left no row
C17_WitnessRole ==
    \E c \in Slots :
        /\ At(c, "addContributor", "done")
        /\ calls[c].status = "BOGUS"
        /\ calls[c].code = "SERVER_ERROR"
        /\ calls[c].pid \in DOMAIN projects
        /\ calls[c].found # None
        /\ MemberRows(calls[c].found, calls[c].pid) = {}

\* C18: the content and the author of a comment change only in the update
\* step of an updateComment of its author; an updateComment of any other
\* authenticated user never reaches the update, never succeeds and changes
\* nothing, and the check on the comment found answers it FORBIDDEN.
C18_Step ==
    /\ \A k \in DOMAIN comments :
         (k \in DOMAIN comments' /\ comments'[k] # comments[k])
         => \E c \in Slots :
              /\ At(c, "updateComment", "update")
              /\ calls[c].cid = k
              /\ calls'[c].code = "OK"
              /\ calls[c].user = comments[k].authorId
              /\ comments'[k].authorId = comments[k].authorId
              /\ comments'[k].taskId = comments[k].taskId
    /\ \A c \in Slots :
         LET r == calls'[c]
         IN  (/\ Runs(c)
              /\ r.op = "updateComment"
              /\ r.cid \in DOMAIN comments
              /\ r.user # None
              /\ r.user # comments[r.cid].authorId)
             => /\ UNCHANGED db
                /\ r.pc # "update"
                /\ r.code # "OK"
                /\ (/\ At(c, "updateComment", "findComment")
                    /\ commentFound(r.pid, r.tid, r.cid))
                     => (r.pc = "done" /\ r.code = "FORBIDDEN")
                /\ (Arrives(c) /\ r.pc = "done")
                     => r.code \in {"FORBIDDEN", "VALIDATION_ERROR", "SERVER_ERROR"}

C18_OnlyAuthorEdits == [][C18_Step]_vars

C18_Witness ==
    /\ last.op = "updateComment"
    /\ last.code = "FORBIDDEN"
    /\ last.cid \in DOMAIN comments
    /\ OwnerOf(last.user, last.pid)
    /\ comments[last.cid].authorId # last.user

\* C19: a deleteComment of an authenticated caller on an existing comment of
\* the addressed project and task succeeds, and removes the comment, exactly
\* when the caller is the author or canModifyTasks holds; otherwise it is
\* answered FORBIDDEN and changes nothing.
C19_Step ==
    \A c \in Slots :
        LET r == calls'[c]
            u == r.user
            p == r.pid
            k == r.cid
        IN  (/\ Answers(c)
             /\ r.op = "deleteComment"
             /\ u # None
             /\ commentFound(p, r.tid, k))
            => /\ r.code = "OK" <=> (comments[k].authorId = u \/ canModifyTasks(u, p))
               /\ r.code = "OK" => k \notin DOMAIN comments'
               /\ r.code # "OK" => (r.code = "FORBIDDEN" /\ UNCHANGED db)

C19_AuthorOrModifierDeletes == [][C19_Step]_vars

\* C20: deleteProject goes on to the delete exactly for the owner and succeeds
\* only there; any other authenticated caller is answered FORBIDDEN at the
\* check; an answer other than success changes nothing; after a success the
\* project, its membership rows, its tasks and their assignment rows and
\* comments are gone.
C20_Step ==
    \A c \in Slots :
        LET r == calls'[c]
            u == r.user
            p == r.pid
        IN  (Runs(c) /\ r.op = "deleteProject")
            => /\ Arrives(c) =>
                    /\ r.pc = "delete" <=> OwnerOf(u, p)
                    /\ (u # None /\ ~OwnerOf(u, p)) => (r.pc = "done" /\ r.code = "FORBIDDEN")
                    /\ UNCHANGED db
               /\ r.code = "OK" => (At(c, "deleteProject", "delete") /\ OwnerOf(u, p))
               /\ (At(c, "deleteProject", "delete") /\ OwnerOf(u, p)) => r.code = "OK"
               /\ r.code # "OK" => UNCHANGED db
               /\ r.code = "OK"
                    => /\ p \notin DOMAIN projects'
                       /\ \A m \in members' : m.projectId # p
                       /\ \A t \in DOMAIN tasks' : tasks'[t].projectId # p
                       /\ \A a \in assignments' : a.taskId \notin ProjectTasks(p)
                       /\ \A k \in DOMAIN comments' : comments'[k].taskId \notin ProjectTasks(p)

C20_OwnerDeletesAndCascades == [][C20_Step]_vars

\* a state in which every relation of a deleted project is referenced by nothing
C20_Witness ==
    /\ last.op = "deleteProject"
    /\ last.code = "OK"
    /\ nextTask = 1
    /\ nextComment = 1
    /\ projects = <<>> /\ members = {} /\ tasks = <<>> /\ assignments = {}
    /\ comments = <<>>

C20_WitnessAdmin ==
    /\ last.op = "deleteProject"
    /\ last.code = "FORBIDDEN"
    /\ AdminOnly(last.user, last.pid)
    /\ comments # <<>>
    /\ assignments # {}

\* C21: a removeContributor of the owner of the project whose target is the
\* owner's own id is answered CANNOT_REMOVE_OWNER at the owner check, and the
\* project (its ownerId included), the membership rows and everything else
\* stay as they were.
C21_Step ==
    \A c \in Slots :
        LET r == calls'[c]
            u == r.user
            p == r.pid
        IN  (/\ Runs(c)
             /\ r.op = "removeContributor"
             /\ OwnerOf(u, p)
             /\ r.found = u)
            => /\ r.pc = "done"
               /\ r.code = "CANNOT_REMOVE_OWNER"
               /\ At(c, "removeContributor", "isOwner")
               /\ UNCHANGED db
               /\ projects'[p].ownerId = u

C21_OwnerCannotRemoveSelf == [][C21_Step]_vars

\* the owner, who also has a membership row of their own, asked to be removed
C21_Witness ==
    /\ last.op = "removeContributor"
    /\ last.code = "CANNOT_REMOVE_OWNER"
    /\ last.found = last.user
    /\ OwnerOf(last.user, last.pid)
    /\ HasAnyRow(last.user, last.pid)

\* C22: every request is decided on the membership graph of the state it
\* starts in. A successful removeContributor leaves its target (unless owner)
\* without access, a successful deleteProject leaves nobody with access, a
\* successful addContributor leaves its target with access; and a request of
\* an authenticated user on a project is denied, writes nothing and returns
\* nothing when the user has no access in that state, is not denied for lack
\* of access when the user has it, and passes or fails the modify and delete
\* checks as the graph of that state says.
C22_ReadOps == {"getProject", "getTasks", "getTask", "getComments"}
C22_AccessOps ==
    C22_ReadOps \cup {"createTask", "updateTask", "deleteTask", "createComment",
                      "updateComment", "deleteComment"}
C22_ModifyOps == {"updateProject", "addContributor", "removeContributor"}

\* hasProjectAccess(u, p) in the state the step leaves
C22_AccessAfter(u, p) ==
    /\ p \in DOMAIN projects'
    /\ \/ projects'[p].ownerId = u
       \/ \E m \in members' : m.userId = u /\ m.projectId = p

C22_Commit(c) ==
    LET r == calls'[c]
        p == r.pid
        t == r.found
    IN  (Answers(c) /\ r.code = "OK")
        => /\ r.op = "removeContributor" => (C22_AccessAfter(t, p) <=> OwnerOf(t, p))
           /\ r.op = "deleteProject" => \A u \in Users : ~C22_AccessAfter(u, p)
           /\ r.op = "addContributor" => C22_AccessAfter(t, p)

C22_Decision(c) ==
    LET r == calls'[c]
        u == r.user
        p == r.pid
        op == r.op
        denied == /\ r.pc = "done"
                  /\ r.code \in {"FORBIDDEN", "VALIDATION_ERROR", "SERVER_ERROR"}
                  /\ UNCHANGED db
                  /\ op \in C22_ReadOps
                       => (r.code = "FORBIDDEN" /\ r.res = {}
                           /\ r.ids = {} /\ r.listed = <<>>)
    IN  /\ (Arrives(c) /\ op \in C22_AccessOps /\ ~hasProjectAccess(u, p)) => denied
        /\ (op \in C22_AccessOps /\ hasProjectAccess(u, p) /\ r.code = "FORBIDDEN")
             => /\ At(c, "updateComment", "findComment")
                /\ comments[r.cid].authorId # u
        /\ (Arrives(c) /\ op \in C22_ModifyOps /\ ~canModifyProject(u, p)) => denied
        /\ (op \in C22_ModifyOps /\ canModifyProject(u, p)) => r.code # "FORBIDDEN"
        /\ (Arrives(c) /\ op = "deleteProject" /\ ~canDeleteProject(u, p)) => denied
        /\ (op = "deleteProject" /\ canDeleteProject(u, p))
             => (r.code # "FORBIDDEN" /\ (r.pc = "done" => r.code = "OK"))

C22_Step ==
    \A c \in Slots :
        (Runs(c) /\ calls'[c].user # None) => (C22_Commit(c) /\ C22_Decision(c))

C22_DecisionsAreFresh == [][C22_Step]_vars

\* u was made assignee of the task as a member, was removed from the project,
\* and its updateTask is now refused
C22_Witness ==
    /\ last.op = "updateTask"
    /\ last.code = "FORBIDDEN"
    /\ last.user \in getTaskAssignments(last.tid)
    /\ last.pid \in DOMAIN projects
    /\ ~HasAnyRow(last.user, last.pid)

\* a user added with addContributor reads the comments of the task
C22_WitnessAdded ==
    /\ last.op = "getComments"
    /\ last.code = "OK"
    /\ AdminOnly(last.user, last.pid)
    /\ Len(last.listed[last.tid]) = 2

\* C23: an update writes the fields its request has and leaves the others as
\* it finds them, whatever another request wrote in between: the write of an
\* updateTask sets title and status to the request's values where present and
\* keeps the current ones elsewhere, the write of an updateProject does so for
\* the name; a request that has reached its write with the record in place can
\* always commit it, and no update is answered with a conflict.
C23_TaskWrite(c) ==
    LET t == calls[c].tid
    IN  /\ t \in DOMAIN tasks'
        /\ tasks'[t].title = IF calls[c].title = None THEN tasks[t].title
                             ELSE trim(calls[c].title)
        /\ tasks'[t].status = IF calls[c].status = None THEN tasks[t].status
                              ELSE calls[c].status
        /\ tasks'[t].projectId = tasks[t].projectId

C23_ProjectWrite(c) ==
    LET p == calls[c].pid
    IN  /\ p \in DOMAIN projects'
        /\ projects'[p].name = IF calls[c].title = None THEN projects[p].name
                               ELSE trim(calls[c].title)
        /\ projects'[p].ownerId = projects[p].ownerId

C23_Codes ==
    {None, "OK", "UNAUTHORIZED", "VALIDATION_ERROR", "FORBIDDEN", "TASK_NOT_FOUND",
     "INVALID_ASSIGNEES", "SERVER_ERROR"}

C23_Step ==
    /\ \A c \in Slots :
         /\ (At(c, "updateTask", "update") /\ Runs(c))
              => IF calls'[c].pc \in {"assign", "assignees"} THEN C23_TaskWrite(c)
                 ELSE calls'[c].code = "SERVER_ERROR" /\ UNCHANGED tasks
         /\ (At(c, "updateProject", "update") /\ Runs(c))
              => IF calls'[c].code = "OK" THEN C23_ProjectWrite(c)
                 ELSE calls'[c].code = "SERVER_ERROR" /\ UNCHANGED projects
         /\ (At(c, "updateTask", "update") /\ calls[c].tid \in DOMAIN tasks)
              => ENABLED (UpdateTaskUpdate(c, TRUE)
                          /\ calls'[c].pc \in {"assign", "assignees"})
         /\ (At(c, "updateProject", "update") /\ calls[c].pid \in DOMAIN projects)
              => ENABLED (UpdateProjectUpdate(c, TRUE) /\ calls'[c].code = "OK")
         /\ calls'[c].code \in C23_Codes
    /\ tasks' # tasks => \E c \in Slots : At(c, "updateTask", "update") /\ C23_TaskWrite(c)
    /\ projects' # projects
         => \E c \in Slots : At(c, "updateProject", "update") /\ C23_ProjectWrite(c)

C23_LastWriteWinsPerField == [][C23_Step]_vars

\* two requests in flight together, one with a title only, one with a status
\* only, have both written: the task has the title of one and the status of
\* the other
C23_Witness ==
    /\ calls[1].op = "updateTask" /\ calls[1].pc \in {"assign", "assignees"}
    /\ calls[2].op = "updateTask" /\ calls[2].pc \in {"assign", "assignees"}
    /\ calls[1].title = " Ab " /\ calls[1].status = None
    /\ calls[2].title = None /\ calls[2].status = "DONE"
    /\ tasks[1].title = "Ab"
    /\ tasks[1].status = "DONE"

\* two requests in flight together have both written the status
C23_WitnessSameField ==
    /\ calls[1].op = "updateTask" /\ calls[1].pc \in {"assign", "assignees"}
    /\ calls[2].op = "updateTask" /\ calls[2].pc \in {"assign", "assignees"}
    /\ calls[1].status = "DONE"
    /\ calls[2].status = "CANCELLED"
    /\ tasks[1].status = "CANCELLED"

\* two updateProject requests in flight together, both past their checks
C23_WitnessProject ==
    /\ At(1, "updateProject", "done")
    /\ calls[1].code = "OK"
    /\ At(2, "updateProject", "update")
    /\ calls[2].title = "Cd"
    /\ projects[1].name = "Ab"

\* the fields of a body that break a rule of its validator
C25_Expected(v) ==
    LET d == v.data
        update == v.op = "validateUpdateTaskData"
        ids == d.assigneeIds
    IN  IF v.op = "validateRegisterData"
        THEN {<<"email">> : x \in {1} \cap (IF Falsy(d.email) \/ ~isValidEmail(d.email)
                                             THEN {1} ELSE {})}
             \cup {<<"password">> : x \in {1} \cap
                      (IF Falsy(d.password) \/ ~isValidPassword(d.password)
                       THEN {1} ELSE {})}
             \cup {<<"name">> : x \in {1} \cap
                      (IF ~Falsy(d.name) /\ length(trim(d.name)) < 2 THEN {1} ELSE {})}
        ELSE IF v.op = "validateUpdatePasswordData"
        THEN {<<"currentPassword">> : x \in {1} \cap
                 (IF Falsy(d.currentPassword) THEN {1} ELSE {})}
             \cup {<<"newPassword">> : x \in {1} \cap
                      (IF \/ Falsy(d.newPassword)
                          \/ ~isValidPassword(d.newPassword)
                          \/ (~Falsy(d.currentPassword) /\ d.currentPassword = d.newPassword)
                       THEN {1} ELSE {})}
        ELSE {<<"title">> : x \in {1} \cap
                 (IF IF update
                     THEN d.title # None /\ (d.title = Null \/ length(trim(d.title)) < 2
                                             \/ length(trim(d.title)) > 200)
                     ELSE Falsy(d.title) \/ length(trim(d.title)) < 2
                          \/ length(trim(d.title)) > 200
                  THEN {1} ELSE {})}
             \cup {<<"description">> : x \in {1} \cap
                      (IF ~Falsy(d.description) /\ length(trim(d.description)) > 1000
                       THEN {1} ELSE {})}
             \cup {<<"status">> : x \in {1} \cap
                      (IF update /\ ~Falsy(d.status) /\ d.status \notin Statuses
                       THEN {1} ELSE {})}
             \cup {<<"priority">> : x \in {1} \cap
                      (IF ~Falsy(d.priority) /\ d.priority \notin Priorities
                       THEN {1} ELSE {})}
             \cup {<<"dueDate">> : x \in {1} \cap
                      (IF ~Falsy(d.dueDate) /\ ~isValidDate(d.dueDate) THEN {1} ELSE {})}
             \cup {<<"assigneeIds">> : x \in {1} \cap
                      (IF ids.kind = "string" \/ (update /\ ids.kind \in {"null", "empty"})
                       THEN {1} ELSE {})}
             \cup {<<"assigneeIds", i - 1>> :
                      i \in {j \in DOMAIN ids.items : ids.items[j] = ""}}

C25_Fields(out) == {out.errors[i].field : i \in DOMAIN out.errors}

C25_ValidatorOps ==
    {"validateRegisterData", "validateUpdatePasswordData", "validateCreateTaskData",
     "validateUpdateTaskData"}

\* what holds of every list a validator returns: an entry with a message for
\* each field that breaks a rule, no entry for any other field, in the order
\* of the fields, and no entry at all exactly when no rule is broken
C25_ReturnedListIsExhaustive ==
    (returned.op \in C25_ValidatorOps /\ ~returned.out.threw)
    => /\ C25_Fields(returned.out) = C25_Expected(returned)
       /\ returned.out.errors = <<>> <=> C25_Expected(returned) = {}
       /\ \A i \in DOMAIN returned.out.errors : returned.out.errors[i].message # ""

\* C25: for every input a validator returns a list that has an entry
\* { field, message } for each field that breaks a rule, and that is empty
\* exactly when no rule is broken.
C25_ValidatorsCollectEveryError ==
    /\ returned.op \in C25_ValidatorOps => ~returned.out.threw
    /\ C25_ReturnedListIsExhaustive

\* validateRegisterData given a bad email, a bad password and a name that is
\* too short has answered with the three errors
C25_AllThree ==
    /\ returned.op = "validateRegisterData"
    /\ returned.data = [email |-> "bad", password |-> "short", name |-> "A"]
    /\ C25_Fields(returned.out) = {<<"email">>, <<"password">>, <<"name">>}
    /\ Len(returned.out.errors) = 3

\* another user than `id' holds an email equal to email ignoring case
C24_HeldByAnother(id, email) ==
    \E u \in DOMAIN accounts \ {id} : toLowerCase(accounts[u]) = toLowerCase(email)

\* the step runs the look-up by email of the request of slot c
C24_LooksUp(c) ==
    LET call == calls'[c]
    IN  \/ /\ Arrives(c) /\ call.op = "register"
           /\ validateRegisterData(call.email, "Passw0rd", None).errors = <<>>
        \/ /\ At(c, "updateProfile", "find") /\ Runs(c)
           /\ call.email \notin {None, Null}
           /\ validateUpdateProfileData(call.title, call.email).errors = <<>>
           /\ toLowerCase(call.email) # toLowerCase(call.reqUser)

\* the step runs the write of the request of slot c
C24_Writes(c) ==
    /\ At(c, "register", "create") \/ At(c, "updateProfile", "update")
    /\ Runs(c)

C24_Unique ==
    \A u, v \in DOMAIN accounts :
        u # v => toLowerCase(accounts[u]) # toLowerCase(accounts[v])

C24_Step ==
    \A c \in Slots :
        LET call == calls'[c]
        IN  /\ (C24_LooksUp(c) /\ C24_HeldByAnother(call.user, call.email))
                => /\ call.pc = "done"
                   /\ call.code \in {"EMAIL_ALREADY_EXISTS", "SERVER_ERROR"}
            /\ (C24_LooksUp(c) /\ call.code = "EMAIL_ALREADY_EXISTS")
                => C24_HeldByAnother(None, call.email)
            /\ (C24_Writes(c) /\ call.email # None
                  /\ C24_HeldByAnother(calls[c].user, call.email))
                => call.code = "SERVER_ERROR"
            /\ (Runs(c) /\ call.pc = "done" /\ call.code # "OK")
                => UNCHANGED <<accounts, userRows>>
            /\ (Runs(c) /\ call.pc # "done") => UNCHANGED <<accounts, userRows>>

\* C24: under every interleaving of register and updateProfile no two users
\* hold emails that are equal ignoring case, before and after every step; a
\* request whose look-up finds its email held by another user, in any letter
\* case, is answered EMAIL_ALREADY_EXISTS (SERVER_ERROR when the query
\* throws), and that answer is given only for an email some row holds; a write
\* that meets an email taken since the look-up is refused by the unique key;
\* an answer other than success creates or changes no user.
C24_EmailsUniqueIgnoringCase == [][C24_Unique /\ C24_Unique' /\ C24_Step]_vars

\* a register was answered EMAIL_ALREADY_EXISTS for an email another user
\* holds in another letter case
C24_Witness ==
    \E c \in Slots :
        /\ calls[c].op = "register" /\ calls[c].code = "EMAIL_ALREADY_EXISTS"
        /\ calls[c].email = "U2@x.io"
        /\ \E u \in DOMAIN accounts : accounts[u] = "u2@x.io"

\* an updateProfile was answered EMAIL_ALREADY_EXISTS while two users exist
C24_WitnessProfile ==
    \E c \in Slots :
        /\ calls[c].op = "updateProfile" /\ calls[c].code = "EMAIL_ALREADY_EXISTS"
        /\ calls[c].email = "U2@x.io"
        /\ Cardinality(DOMAIN accounts) >= 2

\* a write was refused by the unique key: the email was taken after the look-up
C24_WitnessRace ==
    \E c \in Slots :
        /\ calls[c].op \in {"register", "updateProfile"}
        /\ calls[c].code = "SERVER_ERROR"
        /\ calls[c].pc = "done"
        /\ calls[c].email # None
        /\ \E u \in DOMAIN accounts \ {calls[c].user} :
               accounts[u] = toLowerCase(calls[c].email)

C26_Ops ==
    {"getComments", "getTask", "getTasks", "createTask", "updateTask", "getProject",
     "getAssignedTasks", "getProjectsWithTasks"}

C26_Ascending(cs) ==
    \A i, j \in 1..Len(cs) : i < j => createdAt(cs[i]) <= createdAt(cs[j])

\* C26: every answer that returns the comments of a task (getComments,
\* getTask, getTasks, createTask, updateTask, getProject, getAssignedTasks,
\* getProjectsWithTasks) lists them in ascending order of creation.
C26_CommentsAscending ==
    (last.op \in C26_Ops /\ last.code = "OK")
        => \A t \in DOMAIN last.listed : C26_Ascending(last.listed[t])

\* the handlers that go through getTaskComments, and getComments, do list
\* them in ascending order
C26_AscendingThroughGetTaskComments ==
    (last.op \in C26_Ops \ {"getProject", "getAssignedTasks", "getProjectsWithTasks"}
     /\ last.code = "OK")
        => \A t \in DOMAIN last.listed : C26_Ascending(last.listed[t])

C29_DashboardOps == {"getAssignedTasks", "getProjectsWithTasks"}

\* C29: every task returned by getAssignedTasks and every project returned by
\* getProjectsWithTasks belongs to a project the caller has access to when the
\* answer is given.
C29_DashboardShowsOnlyAccessible ==
    (last.op \in C29_DashboardOps /\ last.code = "OK")
        => \A r \in last.res : hasProjectAccess(last.user, r[1])

\* what the dashboard does keep to: the caller is an assignee of every task
\* it returns
C29_DashboardShowsOnlyAssigned ==
    (last.op \in C29_DashboardOps /\ last.code = "OK")
        => \A r \in last.res :
               \E a \in assignments : a.taskId = r[2] /\ a.userId = last.user

C27_TaskOps == {"getTask", "updateTask", "deleteTask", "createComment"}
C27_CommentOps == {"updateComment", "deleteComment"}

C27_Step ==
    \A c \in Slots :
        LET r == calls'[c]
        IN  Runs(c) =>
            /\ (r.op \in C27_TaskOps /\ r.tid \in DOMAIN tasks
                /\ tasks[r.tid].projectId # r.pid)
                => /\ UNCHANGED db
                   /\ r.listed = <<>>
                   /\ r.ids = {}
                   /\ r.pc \in {"done", "canModify", "findTask"}
                   /\ r.pc = "done"
                        => r.code \in {"UNAUTHORIZED", "VALIDATION_ERROR", "SERVER_ERROR",
                                       "FORBIDDEN", "TASK_NOT_FOUND"}
                   /\ calls[c].pc = "findTask"
                        => (r.pc = "done" /\ r.code = "TASK_NOT_FOUND")
                   /\ r.code = "FORBIDDEN" => ~hasProjectAccess(r.user, r.pid)
            /\ (r.op \in C27_CommentOps /\ r.cid \in DOMAIN comments
                /\ ~commentFound(r.pid, r.tid, r.cid))
                => /\ UNCHANGED db
                   /\ r.pc \in {"done", "findComment"}
                   /\ r.pc = "done"
                        => r.code \in {"UNAUTHORIZED", "VALIDATION_ERROR", "SERVER_ERROR",
                                       "FORBIDDEN", "COMMENT_NOT_FOUND"}
                   /\ calls[c].pc = "findComment"
                        => (r.pc = "done" /\ r.code = "COMMENT_NOT_FOUND")
                   /\ r.code = "FORBIDDEN" => ~hasProjectAccess(r.user, r.pid)

\* C27: getTask, updateTask, deleteTask and createComment addressed with a
\* task of another project than the one of the route do not get past the
\* look-up of the task, which answers TASK_NOT_FOUND, and updateComment and
\* deleteComment addressed with a comment that is not of the task and project
\* of the route do not get past the look-up of the comment, which answers
\* COMMENT_NOT_FOUND; nothing of the task or comment is in the answer and
\* nothing is written.
C27_HandlersScopedToRouteProject == [][C27_Step]_vars

\* a member of project 1 only asked to delete the task of project 2 through
\* the route of project 1: TASK_NOT_FOUND, and the task is still there
C27_Witness ==
    /\ last.op = "deleteTask" /\ last.code = "TASK_NOT_FOUND"
    /\ last.tid \in DOMAIN tasks
    /\ tasks[last.tid].projectId # last.pid
    /\ hasProjectAccess(last.user, last.pid)
    /\ ~hasProjectAccess(last.user, tasks[last.tid].projectId)

\* the same for the comment of the task of project 2
C27_WitnessComment ==
    /\ last.op = "deleteComment" /\ last.code = "COMMENT_NOT_FOUND"
    /\ last.cid \in DOMAIN comments
    /\ last.pid = 1
    /\ tasks[comments[last.cid].taskId].projectId = 2
    /\ hasProjectAccess(last.user, 1)
    /\ ~hasProjectAccess(last.user, 2)

C28_ScopedOps ==
    {"getProject", "updateProject", "deleteProject", "addContributor", "removeContributor",
     "createTask", "getTasks", "getTask", "updateTask", "deleteTask",
     "createComment", "getComments", "getComment", "updateComment", "deleteComment"}
C28_LookupOps == {"createTask", "getProject"}

\* every invocation at the look-up of its project addresses a project that
\* was created
C28_Looked ==
    \A c \in Slots : calls[c].pc = "findProject" => calls[c].pid \in 1..nextProject

C28_Step ==
    \A c \in Slots :
        LET r == calls'[c]
        IN  /\ (/\ Arrives(c)
                /\ r.op \in C28_ScopedOps
                /\ r.pid \notin DOMAIN projects
                /\ r.user # None)
                => /\ r.pc = "done"
                   /\ r.code \in {"VALIDATION_ERROR", "SERVER_ERROR", "FORBIDDEN"}
                   /\ UNCHANGED db
            /\ (Runs(c) /\ r.code = "PROJECT_NOT_FOUND")
                => /\ r.op \in C28_LookupOps
                   /\ calls[c].pc = "findProject"
                   /\ r.pid \in 1..nextProject
                   /\ r.pid \notin DOMAIN projects

\* C28: for a project that does not exist every project-scoped handler
\* answers an authenticated request at its access check: FORBIDDEN, or the
\* error of a body the validator refuses or throws on; createTask and
\* getProject answer PROJECT_NOT_FOUND only from the look-up that follows a
\* passed access check, for a project that existed at the check and was
\* deleted since.
C28_NotFoundIsForbidden == [][C28_Looked /\ C28_Looked' /\ C28_Step]_vars

\* createTask answered PROJECT_NOT_FOUND: the project was deleted under it
C28_Witness ==
    \E c \in Slots :
        /\ calls[c].op = "createTask" /\ calls[c].code = "PROJECT_NOT_FOUND"
        /\ calls[c].pid \notin DOMAIN projects

\* getProject answered PROJECT_NOT_FOUND
C28_WitnessGetProject ==
    \E c \in Slots :
        /\ calls[c].op = "getProject" /\ calls[c].code = "PROJECT_NOT_FOUND"
        /\ calls[c].pid \notin DOMAIN projects

\* the owner-to-be asked to delete a project that never existed: FORBIDDEN
C28_WitnessForbidden ==
    /\ last.op = "deleteProject" /\ last.code = "FORBIDDEN"
    /\ nextProject = 0
    /\ \E c \in Slots : calls[c].op = "getProject" /\ calls[c].code = "FORBIDDEN"

\* the step commits a write of the updateTask request of slot c
C30_Commits(c) ==
    \/ At(c, "updateTask", "update") /\ calls'[c].pc \in {"assign", "assignees"}
    \/ At(c, "updateTask", "assign") /\ calls'[c].pc = "assignees"

\* C30: under every interleaving, a write of updateTask commits only for a
\* user who has access to the project and may modify its tasks in the state
\* the write commits in.
C30_NoWriteWithoutPermission ==
    [][\A c \in Slots :
           C30_Commits(c) => /\ hasProjectAccess(calls[c].user, calls[c].pid)
                             /\ canModifyTasks(calls[c].user, calls[c].pid)]_vars

\* what the handler does keep to: a request that is refused writes nothing,
\* and a write is never the first step of a request
C30_ChecksPrecedeWrites ==
    [][\A c \in Slots :
           /\ C30_Commits(c) => calls[c].pc \in {"update", "assign"}
           /\ (Runs(c) /\ calls'[c].code \in {"UNAUTHORIZED", "FORBIDDEN"})
                => UNCHANGED db]_vars

====
